---------------------------- MODULE Spec2Model ----------------------------
(***************************************************************************)
(* Model of the daily soil-water / crop-development / yield step functions *)
(* of aquacrop (src/aquacrop/solution_aot.py).                             *)
(*                                                                         *)
(* Numbers.  The program computes in float64; the model computes in fixed  *)
(* point on integers:                                                      *)
(*   volumetric water contents (th, th_s, th_fc, ...)  in 1/1000 m3/m3     *)
(*   depths (dz, dzsum, zMid, zGW, Zroot, ...)          in mm              *)
(*   water depths (drainsum, Ksat, Infl, ...)           in 1/1000 mm       *)
(* so that the program's "1000 * th * dz" (mm) is th * dz in the model.    *)
(* Dimensionless coefficients (tau, stress coefficients) are in 1/1000.    *)
(***************************************************************************)
EXTENDS Integers, Sequences, FiniteSets, TLC

VARIABLES
    prof,       \* SoilProfileClass: the soil compartments (th_fc_Adj is written)
    Soil,       \* soil-wide parameters (zTop, zGerm, fshape_cr, WaterTable)
    Crop,       \* crop parameters
    IrrMngt,    \* irrigation management parameters
    FieldMngt,  \* field management parameters (bunds)
    NewCond,    \* InitCondClass: the condition threaded through the day steps
    ret,        \* what the last call was, its inputs and what it returned
    nCalls      \* number of calls made so far

vars == <<prof, Soil, Crop, IrrMngt, FieldMngt, NewCond, ret, nCalls>>

\* fixed-point resolutions (units, not bounds)
SC == 10 * 10 * 10
SC2 == SC * SC

----------------------------------------------------------------------------
(* Arithmetic helpers                                                      *)

Min(a, b) == IF a <= b THEN a ELSE b
Max(a, b) == IF a >= b THEN a ELSE b
Abs(a) == IF a < 0 THEN 0 - a ELSE a

\* sum of the entries of a sequence
Sum(f) == LET RECURSIVE S(_)
              S(i) == IF i = 0 THEN 0 ELSE f[i] + S(i - 1)
          IN  S(Len(f))

\* the element of a set of one: a value computed once
Only(S) == CHOOSE o \in S : TRUE

\* division rounding to nearest, halves away from zero (b > 0)
RDiv(a, b) == IF a >= 0 THEN (2 * a + b) \div (2 * b) ELSE 0 - ((2 * (0 - a) + b) \div (2 * b))

\* np.exp(x) - 1 by its Taylor series; x in 1/SC, result in 1/SC2, |x| <= SC
RECURSIVE ExpSeries(_, _, _)
ExpSeries(x, term, n) ==
    IF term = 0 \/ n > 12 THEN 0
    ELSE term + ExpSeries(x, RDiv(term * x, n * SC), n + 1)

ExpM1(x) == ExpSeries(x, x * SC, 2)

\* np.log(1 + r): the y (in 1/SC) with ExpM1(y) <= r < ExpM1(y + 1); r in 1/SC2
RECURSIVE LogSearch(_, _, _)
LogSearch(r, lo, hi) ==
    IF hi - lo <= 1 THEN lo
    ELSE LET mid == (lo + hi) \div 2
         IN  IF ExpM1(mid) <= r THEN LogSearch(r, mid, hi) ELSE LogSearch(r, lo, mid)

Log1p(r) == IF r >= ExpM1(SC) THEN SC
            ELSE IF r <= ExpM1(0 - SC) THEN 0 - SC
            ELSE LogSearch(r, 0 - SC, SC)

----------------------------------------------------------------------------
(* Soil profile (SoilProfileClass): one entry per compartment              *)

\* number of soil compartments of the modelled field
nComp == 3

Comps == 1 .. nComp

\* soil layer of compartment i: the upper half is layer 1, the rest layer 2
LayerOf(i) == IF 2 * i <= nComp + 1 THEN 1 ELSE 2

\* hydraulic properties of a soil texture
Loam == [th_s |-> 460, th_fc |-> 310, th_wp |-> 150, th_dry |-> 75,
         Ksat |-> 500 * SC, tau |-> 760, Penetrability |-> 100,
         aCR |-> 0 - 453, bCR |-> 837]
Sand == [th_s |-> 360, th_fc |-> 130, th_wp |-> 60, th_dry |-> 30,
         Ksat |-> 3000 * SC, tau |-> 1000, Penetrability |-> 100,
         aCR |-> 0 - 322, bCR |-> 0 - 1525]
Pan  == [th_s |-> 450, th_fc |-> 300, th_wp |-> 200, th_dry |-> 100,
         Ksat |-> 5 * SC, tau |-> 150, Penetrability |-> 50,
         aCR |-> 0 - 572, bCR |-> 0 - 1530]

\* thickness of every compartment (mm)
CompThick == 100

\* a profile whose layer 1 has texture top and whose layer 2 has texture sub
MkProfile(top, sub) ==
    LET tex(i) == IF LayerOf(i) = 1 THEN top ELSE sub
    IN  [ dz            |-> [i \in Comps |-> CompThick],
          dzsum         |-> [i \in Comps |-> i * CompThick],
          zMid          |-> [i \in Comps |-> i * CompThick - CompThick \div 2],
          Layer         |-> [i \in Comps |-> LayerOf(i)],
          th_s          |-> [i \in Comps |-> tex(i).th_s],
          th_fc         |-> [i \in Comps |-> tex(i).th_fc],
          th_wp         |-> [i \in Comps |-> tex(i).th_wp],
          th_dry        |-> [i \in Comps |-> tex(i).th_dry],
          Ksat          |-> [i \in Comps |-> tex(i).Ksat],
          tau           |-> [i \in Comps |-> tex(i).tau],
          Penetrability |-> [i \in Comps |-> tex(i).Penetrability],
          aCR           |-> [i \in Comps |-> tex(i).aCR],
          bCR           |-> [i \in Comps |-> tex(i).bCR],
          th_fc_Adj     |-> [i \in Comps |-> tex(i).th_fc] ]

Profiles == { MkProfile(Loam, Loam), MkProfile(Loam, Pan), MkProfile(Sand, Loam) }

----------------------------------------------------------------------------
(* drainage                                                                *)

\* (exp(th - th_fc) - 1) / (exp(th_s - th_fc) - 1), in 1/SC
ExpRatio(th, fc, s) == RDiv(ExpM1(th - fc) * SC, ExpM1(s - fc))

\* a drainage ability that takes no account of the adjusted field capacity
DrainAbilityUnadjusted(p, ii, th, fcAdj) ==
    IF th >= p.th_s[ii] THEN RDiv(p.tau[ii] * (p.th_s[ii] - p.th_fc[ii]), SC)
    ELSE RDiv(p.tau[ii] * (p.th_s[ii] - p.th_fc[ii])
                 * ExpRatio(th, p.th_fc[ii], p.th_s[ii]), SC2)

\* drainage ability dthdt of compartment ii at water content th
DrainAbility(p, ii, th, fcAdj) ==
    LET cth_fc == p.th_fc[ii]
        cth_s  == p.th_s[ii]
        ctau   == p.tau[ii]
        lim(d) == IF th - d < fcAdj THEN th - fcAdj ELSE d
    IN  IF th <= fcAdj THEN 0
        ELSE IF th >= cth_s THEN lim(RDiv(ctau * (cth_s - cth_fc), SC))
        ELSE lim(RDiv(ctau * (cth_s - cth_fc) * ExpRatio(th, cth_fc, cth_s), SC2))

\* a limiter that forgets the part of the flow above Ksat
CapKsatDropsExcess(drainsum, excess, cKsat) ==
    [drainsum |-> Min(drainsum, cKsat), excess |-> excess]

\* restrict cumulative drainage to Ksat; the part above it is excess
CapKsat(drainsum, excess, cKsat) ==
    IF drainsum > cKsat
    THEN [drainsum |-> cKsat, excess |-> excess + drainsum - cKsat]
    ELSE [drainsum |-> drainsum, excess |-> excess]

\* water content thX at which the drainage ability equals the cumulative
\* drainage arriving from above
DrainThX(p, ii, drainsum, fcAdj) ==
    LET cth_fc   == p.th_fc[ii]
        cth_s    == p.th_s[ii]
        ctau     == p.tau[ii]
        prethick == p.dzsum[ii] - p.dz[ii]
        \* dthdt = drainsum / (1000 * prethick), in 1/SC2
        dthdt    == (drainsum * SC) \div prethick
        \* A - 1 = dthdt * (exp(th_s - th_fc) - 1) / (tau * (th_s - th_fc))
        Am1      == (dthdt * (ExpM1(cth_s - cth_fc) \div SC)) \div ((ctau * (cth_s - cth_fc)) \div SC)
    IN  IF drainsum <= 0 THEN fcAdj
        ELSE IF ctau > 0 THEN Max(cth_fc + Log1p(Am1), fcAdj)
        ELSE cth_s + 10

\* one compartment of the drainage loop: new water content, cumulative
\* drainage leaving it and excess to be pushed back up
DrainComp(p, ii, th0, fcAdj, drainsum0) ==
    LET cth_s    == p.th_s[ii]
        cdz      == p.dz[ii]
        cKsat    == p.Ksat[ii]
        prethick == p.dzsum[ii] - cdz
        dthdt    == DrainAbility(p, ii, th0, fcAdj)
        draincomp == dthdt * cdz
        drainmax == dthdt * prethick
    IN  IF drainsum0 <= drainmax
        THEN \* no storage needed
             LET c == CapKsat(drainsum0 + draincomp, 0, cKsat)
             IN  [th |-> th0 - dthdt, drainsum |-> c.drainsum, excess |-> c.excess]
        ELSE \* storage is needed
             LET thX == DrainThX(p, ii, drainsum0, fcAdj)
                 thn == th0 + drainsum0 \div cdz
             IN  IF thX <= cth_s
                 THEN IF thn > thX
                      THEN LET d == DrainAbility(p, ii, thX, fcAdj)
                               c == CapKsat((thn - thX) * cdz + d * cdz, 0, cKsat)
                           IN  [th |-> thX - d, drainsum |-> c.drainsum, excess |-> c.excess]
                      ELSE IF thn > fcAdj
                      THEN LET d == DrainAbility(p, ii, thn, fcAdj)
                               c == CapKsat(d * cdz, 0, cKsat)
                           IN  [th |-> thn - d, drainsum |-> c.drainsum, excess |-> c.excess]
                      ELSE [th |-> thn, drainsum |-> 0, excess |-> 0]
                 ELSE IF thn <= cth_s
                      THEN IF thn > fcAdj
                           THEN LET d == DrainAbility(p, ii, thn, fcAdj)
                                    c == CapKsat(d * cdz, 0, cKsat)
                                IN  [th |-> thn - d, drainsum |-> c.drainsum, excess |-> c.excess]
                           ELSE [th |-> thn, drainsum |-> 0, excess |-> 0]
                      ELSE LET ex0 == (thn - cth_s) * cdz
                               d   == DrainAbility(p, ii, thn, fcAdj)
                               dmx == Min(d * prethick, ex0)
                               c   == CapKsat(d * cdz + dmx, ex0 - dmx, cKsat)
                           IN  [th |-> cth_s - d, drainsum |-> c.drainsum, excess |-> c.excess]

\* redistribute excess into compartment precomp and the ones above it
RECURSIVE DrainExcess(_, _, _, _, _, _)
DrainExcess(p, ii, thnew, FluxOut, excess, precomp) ==
    IF ~(excess > 0 /\ precomp >= 1)
    THEN [thnew |-> thnew, FluxOut |-> FluxOut, lost |-> Max(excess, 0)]
    ELSE LET flux == IF precomp < ii
                     THEN [FluxOut EXCEPT ![precomp] = @ - excess]
                     ELSE FluxOut
             thp  == thnew[precomp] + excess \div p.dz[precomp]
         IN  IF thp > p.th_s[precomp]
             THEN DrainExcess(p, ii, [thnew EXCEPT ![precomp] = p.th_s[precomp]], flux,
                              (thp - p.th_s[precomp]) * p.dz[precomp], precomp - 1)
             ELSE DrainExcess(p, ii, [thnew EXCEPT ![precomp] = thp], flux, 0, precomp - 1)

RECURSIVE DrainLoop(_, _, _, _, _)
DrainLoop(p, th_init, th_fc_Adj_init, st, ii) ==
    IF ii > Len(th_init) THEN st
    ELSE LET c  == DrainComp(p, ii, th_init[ii], th_fc_Adj_init[ii], st.drainsum)
             r  == DrainExcess(p, ii, [st.thnew EXCEPT ![ii] = c.th],
                               [st.FluxOut EXCEPT ![ii] = c.drainsum], c.excess, ii)
         IN  DrainLoop(p, th_init, th_fc_Adj_init,
                       [thnew |-> r.thnew, FluxOut |-> r.FluxOut,
                        drainsum |-> c.drainsum, lost |-> st.lost + r.lost], ii + 1)

\* drainage(prof, th_init, th_fc_Adj_init): thnew, DeepPerc, FluxOut
\* (lost: excess left over at the soil surface, which the program drops)
drainage(p, th_init, th_fc_Adj_init) ==
    LET z  == [i \in 1 .. Len(th_init) |-> 0]
        st == DrainLoop(p, th_init, th_fc_Adj_init,
                        [thnew |-> z, FluxOut |-> z, drainsum |-> 0, lost |-> 0], 1)
    IN  [thnew |-> st.thnew, DeepPerc |-> st.drainsum, FluxOut |-> st.FluxOut,
         lost |-> st.lost]

----------------------------------------------------------------------------
(* infiltration                                                            *)

\* a water depth cut down to a whole number of th steps of a compartment of
\* thickness dz (the resolution at which the model stores water)
OnGrid(w, dz) == (w \div dz) * dz

\* surface storage: ToStore, RunoffIni and the new SurfaceStorage.
\* With bunds enabled and zBund <= 0.001 m the program assigns neither
\* ToStore nor RunoffIni: defined is FALSE.
InflSurface(p, Cond, FM, Infl) ==
    LET zBund1000 == FM.zBund * SC
        Ksat0 == p.Ksat[1]
    IN  IF FM.Bunds
        THEN IF FM.zBund > 1
             THEN LET InflTot == Infl + Cond.SurfaceStorage
                  IN  IF InflTot > 0
                      THEN LET ToStore == IF InflTot > Ksat0 THEN Ksat0 ELSE InflTot
                               Stor    == IF InflTot > Ksat0 THEN InflTot - Ksat0 ELSE 0
                           IN  IF Stor > zBund1000
                               THEN [defined |-> TRUE, ToStore |-> ToStore,
                                     RunoffIni |-> Stor - zBund1000,
                                     SurfaceStorage |-> zBund1000]
                               ELSE [defined |-> TRUE, ToStore |-> ToStore,
                                     RunoffIni |-> 0, SurfaceStorage |-> Stor]
                      ELSE [defined |-> TRUE, ToStore |-> 0, RunoffIni |-> 0,
                            SurfaceStorage |-> Cond.SurfaceStorage]
             ELSE [defined |-> FALSE, ToStore |-> 0, RunoffIni |-> 0,
                   SurfaceStorage |-> Cond.SurfaceStorage]
        ELSE IF Infl > Ksat0
             THEN [defined |-> TRUE, ToStore |-> Ksat0,
                   RunoffIni |-> Infl - Ksat0 + Cond.SurfaceStorage, SurfaceStorage |-> 0]
             ELSE [defined |-> TRUE, ToStore |-> Infl,
                   RunoffIni |-> Cond.SurfaceStorage, SurfaceStorage |-> 0]

\* threshold water content theta0 and drainage ability dthdt0 (as a share of
\* the saturated ability dthdtS, in 1/SC) of compartment ii for ToStore
InflTheta0(p, ii, fcAdj, ToStore) ==
    LET s      == p.th_s[ii]
        fc     == p.th_fc[ii]
        tsf    == p.tau[ii] * (s - fc)            \* dthdtS in 1/SC2
        dthdt0 == (ToStore * SC) \div p.dz[ii]    \* ToStore / (1000 * dz) in 1/SC2
        Am1    == (dthdt0 * (ExpM1(s - fc) \div SC)) \div (tsf \div SC)
        th0    == fc + Log1p(Am1)
        share  == (dthdt0 * SC) \div tsf
    IN  IF dthdt0 < tsf
        THEN IF th0 > s THEN [theta0 |-> s, share |-> share]
             ELSE IF th0 <= fcAdj THEN [theta0 |-> fcAdj, share |-> 0]
             ELSE [theta0 |-> th0, share |-> share]
        ELSE [theta0 |-> s, share |-> SC]

\* back-up of excess into compartment precomp and the ones above it; what
\* is left at the soil surface becomes runoff
RECURSIVE InflExcess(_, _, _, _, _)
InflExcess(p, thnew, FluxOut, excess, precomp) ==
    IF ~(excess > 0 /\ precomp >= 1)
    THEN [thnew |-> thnew, FluxOut |-> FluxOut, left |-> Max(excess, 0)]
    ELSE LET flux == [FluxOut EXCEPT ![precomp] = @ - excess]
             thp  == thnew[precomp] + excess \div p.dz[precomp]
         IN  IF thp > p.th_s[precomp]
             THEN InflExcess(p, [thnew EXCEPT ![precomp] = p.th_s[precomp]], flux,
                             (thp - p.th_s[precomp]) * p.dz[precomp], precomp - 1)
             ELSE InflExcess(p, [thnew EXCEPT ![precomp] = thp], flux, 0, precomp - 1)

\* one compartment of the loop, given its threshold t: water stored, water
\* passed on, and the excess backed up
InflComp(p, Cond, st, ii, t) ==
    LET cdz      == p.dz[ii]
        cKsat    == p.Ksat[ii]
        drainmx0 == OnGrid((cKsat \div SC) * t.share, cdz)
        drainmax == IF drainmx0 + st.FluxOut[ii] > cKsat
                    THEN cKsat - st.FluxOut[ii] ELSE drainmx0
        diff     == t.theta0 - Cond.th[ii]
        thn      == st.thnew[ii] + st.ToStore \div cdz
        th1      == IF diff > 0 THEN Min(thn, t.theta0) ELSE st.thnew[ii]
        ToStore1 == IF diff > 0
                    THEN (IF thn > t.theta0 THEN (thn - t.theta0) * cdz ELSE 0)
                    ELSE st.ToStore
        excess   == Max(ToStore1 - drainmax, 0)
        Back(r)  == [thnew |-> r.thnew, FluxOut |-> r.FluxOut,
                     ToStore |-> ToStore1 - excess, Runoff |-> st.Runoff + r.left]
    IN  Back(InflExcess(p, [st.thnew EXCEPT ![ii] = th1],
                        [st.FluxOut EXCEPT ![ii] = @ + ToStore1], excess, ii))

\* the loop over compartments while ToStore > 0
RECURSIVE InflLoop(_, _, _, _)
InflLoop(p, Cond, st, ii) ==
    IF ~(st.ToStore > 0 /\ ii <= Len(Cond.th)) THEN st
    ELSE InflLoop(p, Cond,
                  InflComp(p, Cond, st, ii,
                           InflTheta0(p, ii, Cond.th_fc_Adj[ii], st.ToStore)),
                  ii + 1)

\* the totals once the loop has ended in st
InflTotals(FM, Infl1, sf, st, DeepPerc0, Runoff0) ==
    LET DeepPerc == IF sf.ToStore > 0 THEN st.ToStore ELSE 0
        Runoff1  == st.Runoff + sf.RunoffIni
        bunded   == Runoff1 > sf.RunoffIni /\ FM.Bunds /\ FM.zBund > 1
        Stor1    == sf.SurfaceStorage + (Runoff1 - sf.RunoffIni)
        Stor     == IF bunded THEN Min(Stor1, FM.zBund * SC) ELSE sf.SurfaceStorage
        Runoff   == IF bunded
                    THEN (IF Stor1 > FM.zBund * SC
                          THEN sf.RunoffIni + (Stor1 - FM.zBund * SC) ELSE sf.RunoffIni)
                    ELSE Runoff1
    IN  [ th |-> st.thnew, SurfaceStorage |-> Stor, DeepPerc |-> DeepPerc + DeepPerc0,
          RunoffTot |-> Runoff + Runoff0, Infl |-> Infl1 - Runoff, FluxOut |-> st.FluxOut,
          ToStore |-> sf.ToStore, RunoffIni |-> sf.RunoffIni ]

\* infiltration(prof, InitCond, Infl, Irr, IrrMngt_AppEff, FieldMngt, FluxOut,
\*              DeepPerc0, Runoff0, GrowingSeason), ToStore and RunoffIni given
InflBody(p, Cond, FM, Infl1, sf, FluxOut, DeepPerc0, Runoff0) ==
    LET st0 == [thnew |-> Cond.th, FluxOut |-> FluxOut, ToStore |-> sf.ToStore, Runoff |-> 0]
    IN  InflTotals(FM, Infl1, sf, IF sf.ToStore > 0 THEN InflLoop(p, Cond, st0, 1) ELSE st0,
                   DeepPerc0, Runoff0)

\* Infl after irrigation is added (application efficiency in percent)
InflWithIrr(Infl, Irr, AppEff, GrowingSeason) ==
    IF GrowingSeason THEN Infl + (Irr * AppEff) \div 100 ELSE Infl

----------------------------------------------------------------------------
(* capillary_rise                                                          *)

\* ln 2 in 1/SC
Ln2 == 693

RECURSIVE Pow2(_)
Pow2(k) == IF k <= 0 THEN 1 ELSE 2 * Pow2(k - 1)

\* exp(y) for y in 1/SC, result in 1/SC; y is cut to [-8, 10]
Exp(y) ==
    LET Raise(yc, k) ==
            LET m == (SC2 + ExpM1(yc - k * Ln2)) \div SC
            IN  IF k >= 0 THEN m * Pow2(k) ELSE m \div Pow2(0 - k)
        Split(yc) == Raise(yc, IF yc >= 0 THEN yc \div Ln2
                               ELSE 0 - ((0 - yc + Ln2 - 1) \div Ln2))
    IN  Only({ Split(yc) : yc \in { Max(Min(y, 10 * SC), 0 - 8 * SC) } })

\* ln(x) for x > 0 in 1/SC, result in 1/SC: the largest y with Exp(y) <= x
RECURSIVE LnSearch(_, _, _)
LnSearch(x, lo, hi) ==
    IF hi - lo <= 1 THEN lo
    ELSE Only({ IF Exp(mid) <= x THEN LnSearch(x, mid, hi) ELSE LnSearch(x, lo, mid) :
                mid \in { (lo + hi) \div 2 } })

Ln(x) == Only({ LnSearch(v, 0 - 8 * SC, 10 * SC) : v \in { x } })

\* largest capillary rise a compartment allows (1/SC mm), water table zGW,
\* compartment mid-depth zBotMid (mm)
CrLimit(p, i, zGW, zBotMid) ==
    IF p.Ksat[i] > 0 /\ zGW > 0 /\ (zGW - zBotMid) < 4 * SC
    THEN IF zBotMid >= zGW THEN 99 * SC
         ELSE Min(Exp(((Ln(zGW - zBotMid) - p.bCR[i]) * SC) \div p.aCR[i]), 99 * SC)
    ELSE 0

Soil_fshape_cr == 16

\* x ** Soil_fshape_cr for x in 1/SC, cut to 1 once |x| >= 1
Pow16(x) ==
    IF Abs(x) >= SC THEN SC
    ELSE LET x2 == (x * x) \div SC
             x4 == (x2 * x2) \div SC
             x8 == (x4 * x4) \div SC
         IN  (x8 * x8) \div SC

\* a driving force that is not limited to 1
CrDfUnlimited(p, i, th, fcAdj) == 3 * SC

\* driving force Df (1/SC)
CrDf(p, i, th, fcAdj) ==
    IF th >= p.th_wp[i] /\ Soil_fshape_cr > 0 /\ fcAdj # p.th_wp[i]
    THEN Max(Min(SC - Pow16(((th - p.th_wp[i]) * SC) \div (fcAdj - p.th_wp[i])), SC), 0)
    ELSE IF th >= p.th_wp[i] /\ Soil_fshape_cr > 0 THEN 0 ELSE SC

\* relative hydraulic conductivity Krel (1/SC); thThr is kept doubled
CrKrel(p, i, th) ==
    LET thThr2 == p.th_wp[i] + p.th_fc[i]
    IN  IF 2 * th < thThr2
        THEN IF th <= p.th_wp[i] \/ thThr2 <= 2 * p.th_wp[i] THEN 0
             ELSE (2 * (th - p.th_wp[i]) * SC) \div (thThr2 - 2 * p.th_wp[i])
        ELSE SC

\* the upward loop from the bottom compartment
RECURSIVE CrLoop(_, _, _, _)
CrLoop(p, Cond, FluxOut, st) ==
    LET compi == st.compi IN
    IF ~(st.MaxCR > 0 /\ compi >= 1 /\ FluxOut[compi] = 0) THEN st
    ELSE LET thc   == st.th[compi]
             fcAdj == Cond.th_fc_Adj[compi]
             cdz   == p.dz[compi]
             Df    == CrDf(p, compi, thc, fcAdj)
             Krel  == CrKrel(p, compi, thc)
             dth   == fcAdj - thc
             room  == dth > 0 /\ (2 * st.zBot - cdz) < 2 * Cond.zGW
             dthMax == ((((Krel * Df) \div SC) * st.MaxCR) \div SC) \div cdz
             th1   == IF ~room THEN thc ELSE IF dth >= dthMax THEN thc + dthMax ELSE fcAdj
             CRcomp == IF ~room THEN 0 ELSE IF dth >= dthMax THEN dthMax * cdz ELSE dth * cdz
             MaxCR1 == IF ~room THEN st.MaxCR
                       ELSE IF dth >= dthMax THEN 0
                       ELSE (Krel * st.MaxCR) \div SC - CRcomp
             zBot1 == st.zBot - cdz
             MaxCR2 == IF compi - 1 >= 1
                       THEN Min(MaxCR1, CrLimit(p, compi - 1, Cond.zGW,
                                                zBot1 - p.dz[compi - 1] \div 2))
                       ELSE MaxCR1
         IN  CrLoop(p, Cond, FluxOut,
                    [th |-> [st.th EXCEPT ![compi] = th1], WCr |-> st.WCr + CRcomp,
                     MaxCR |-> MaxCR2, zBot |-> zBot1, compi |-> compi - 1])

\* capillary_rise(prof, Soil_nLayer, Soil_fshape_cr, NewCond, FluxOut, WaterTable)
capillary_rise(p, Cond, FluxOut, WaterTable) ==
    IF WaterTable = 0 THEN [th |-> Cond.th, CrTot |-> 0]
    ELSE LET n  == Len(Cond.th)
             st == CrLoop(p, Cond, FluxOut,
                          [th |-> Cond.th, WCr |-> 0,
                           MaxCR |-> CrLimit(p, n, Cond.zGW, p.zMid[n]),
                           zBot |-> p.dzsum[n], compi |-> n])
         IN  [th |-> st.th, CrTot |-> st.WCr]

----------------------------------------------------------------------------
(* check_groundwater_table and groundwater_inflow                          *)

\* ln(10) in 1/SC
Ln10 == 2303

\* Xmax (mm): 1 m for th_fc <= 0.1, 2 m for th_fc >= 0.3, else
\* exp(pF * ln 10) / 100 m = exp((pF - 2) * ln 10) m with pF = 2 + 0.3 * (th_fc - 0.1) / 0.2
GwXmax(th_fc) ==
    IF th_fc <= 100 THEN SC
    ELSE IF th_fc >= 300 THEN 2 * SC
    ELSE RDiv(SC2 + ExpM1(RDiv(3 * (th_fc - 100) * Ln10, 2 * SC)), SC)

\* index (1-based) of the first compartment whose mid-point is at or below
\* depth z: np.argwhere(zMid >= z).flatten()[0]; nComp + 1 when there is none
FirstAtOrBelow(zs, z) ==
    IF \E i \in DOMAIN zs : zs[i] >= z
    THEN CHOOSE i \in DOMAIN zs : zs[i] >= z /\ \A j \in DOMAIN zs : zs[j] >= z => i <= j
    ELSE Len(zs) + 1

\* the loop that fills thfcAdj from the bottom compartment upward
RECURSIVE GwFcAdjLoop(_, _, _, _)
GwFcAdjLoop(p, zGW, compi, thfcAdj) ==
    IF compi < 1 THEN thfcAdj
    ELSE LET Xmax == GwXmax(p.th_fc[compi])
         IN  IF zGW < 0 \/ zGW - p.zMid[compi] >= Xmax
             THEN \* "for ii in range(compi)": the compartments above compi
                  [i \in DOMAIN thfcAdj |-> IF i < compi THEN p.th_fc[i] ELSE thfcAdj[i]]
             ELSE LET v == IF p.th_fc[compi] >= p.th_s[compi] THEN p.th_fc[compi]
                           ELSE IF p.zMid[compi] >= zGW THEN p.th_s[compi]
                           ELSE LET dV == p.th_s[compi] - p.th_fc[compi]
                                    d  == p.zMid[compi] - (zGW - Xmax)
                                IN  p.th_fc[compi] + RDiv(dV * d * d, Xmax * Xmax)
                  IN  GwFcAdjLoop(p, zGW, compi - 1, [thfcAdj EXCEPT ![compi] = v])

\* check_groundwater_table(..., prof, NewCond, ParamStruct_WaterTable, zGW):
\* the new condition (the profile's th_fc_Adj is the condition's)
check_groundwater_table(p, Cond, WaterTable, zGW) ==
    IF WaterTable # 1 THEN Cond
    ELSE LET n        == Len(p.zMid)
             WTinSoil == IF zGW >= 0 THEN (\E i \in 1 .. n : p.zMid[i] >= zGW)
                         ELSE Cond.WTinSoil
             idx      == FirstAtOrBelow(p.zMid, zGW)
             th       == IF WTinSoil
                         THEN [i \in 1 .. n |-> IF i >= idx THEN p.th_s[i] ELSE Cond.th[i]]
                         ELSE Cond.th
             thfcAdj  == GwFcAdjLoop(p, zGW, n, [i \in 1 .. n |-> 0])
         IN  [Cond EXCEPT !.zGW = zGW, !.WTinSoil = WTinSoil, !.th = th,
                          !.th_fc_Adj = thfcAdj]

\* groundwater_inflow(prof, NewCond): the new water contents and GwIn
groundwater_inflow(p, Cond) ==
    IF ~Cond.WTinSoil THEN [th |-> Cond.th, GwIn |-> 0]
    ELSE LET n    == Len(p.zMid)
             idx  == FirstAtOrBelow(p.zMid, Cond.zGW)
             fill(i) == i >= idx /\ Cond.th[i] < p.th_s[i]
         IN  [th   |-> [i \in 1 .. n |-> IF fill(i) THEN p.th_s[i] ELSE Cond.th[i]],
              GwIn |-> Sum([i \in 1 .. n |->
                             IF fill(i) THEN (p.th_s[i] - Cond.th[i]) * p.dz[i] ELSE 0])]

----------------------------------------------------------------------------
(* root_zone_water                                                         *)
(* Water contents are passed in 1/(100 * SC) m3/m3 and water depths are    *)
(* returned in 1/(100 * SC) mm, so that round(x, 2) is not the identity.   *)

\* round(x / q) * q as Python rounds: to the nearest, a tie to the even one
RoundTo(x, q) ==
    LET f == x \div q
        r == x - f * q
    IN  IF 2 * r > q \/ (2 * r = q /\ f % 2 = 1) THEN (f + 1) * q ELSE f * q

\* depletion without the cap at total available water
DepletionUncapped(WrFC, WrAct, TAW) == WrFC - WrAct

\* depletion: min(WrFC - WrAct, TAW)
Depletion(WrFC, WrAct, TAW) == Min(WrFC - WrAct, TAW)

\* root_zone_water(prof, InitCond_Zroot, InitCond_th, Soil_zTop, Crop_Zmin,
\* Crop_Aer); undef is what the index read from an empty argwhere holds
\* (0: the read raises) when the root zone is deeper than the profile
root_zone_water(p, Zroot, thx, zTop, Zmin, Aer, undef) ==
    LET n         == Len(p.dzsum)
        fine(v)   == [i \in 1 .. n |-> 100 * v[i]]
        rootdepth == RoundTo(Max(Zroot, Zmin), 10)
        idx       == FirstAtOrBelow(p.dzsum, rootdepth)
        last      == IF idx <= n THEN idx ELSE undef
        cover(i)  == IF p.dzsum[i] > rootdepth
                     THEN p.dz[i] - (p.dzsum[i] - rootdepth) ELSE p.dz[i]
        Wr(v)     == Sum([i \in 1 .. last |-> RoundTo(v[i] * cover(i), SC)])
        ztopdepth == RoundTo(zTop, 10)
        ntop      == Cardinality({i \in 1 .. n : p.dzsum[i] <= ztopdepth})
        WrZt(v)   == Sum([i \in 1 .. ntop |-> v[i] * p.dz[i]])
        Out(WrAct, WrFC, WrWP, ActZt, FCZt, WPZt) ==
            LET TAWRz == Max(WrFC - WrWP, 0)
                TAWZt == Max(FCZt - WPZt, 0)
                deep  == rootdepth > zTop
            IN  [ ok |-> TRUE, rootdepth |-> rootdepth, WrAct |-> WrAct,
                  WrFC |-> WrFC, WrWP |-> WrWP,
                  TAW |-> [Rz |-> TAWRz, Zt |-> IF deep THEN TAWZt ELSE TAWRz],
                  Dr |-> [Rz |-> Depletion(WrFC, WrAct, TAWRz),
                          Zt |-> IF deep THEN Depletion(FCZt, ActZt, TAWZt)
                                 ELSE Depletion(WrFC, WrAct, TAWRz)],
                  thRZ |-> [Act |-> WrAct \div rootdepth,
                            S   |-> Wr(fine(p.th_s)) \div rootdepth,
                            FC  |-> WrFC \div rootdepth,
                            WP  |-> WrWP \div rootdepth,
                            Dry |-> Wr(fine(p.th_dry)) \div rootdepth,
                            Aer |-> Wr([i \in 1 .. n |-> 100 * p.th_s[i] - Aer * SC])
                                      \div rootdepth] ]
    IN  IF idx > n /\ undef = 0 THEN [ok |-> FALSE, why |-> "IndexError"]
        ELSE IF rootdepth > zTop /\ ntop = 0 THEN [ok |-> FALSE, why |-> "AssertionError"]
        ELSE Out(Max(Wr(thx), 0), Wr(fine(p.th_fc)), Wr(fine(p.th_wp)),
                 Max(WrZt(thx), 0), WrZt(fine(p.th_fc)), WrZt(fine(p.th_wp)))

----------------------------------------------------------------------------
(* irrigation                                                              *)

\* a seasonal limit that is not applied
IrrSeasonUncapped(Irr, IrrCum, MaxIrrSeason) == Irr

\* the seasonal limit on the day's irrigation
IrrSeasonCap(Irr, IrrCum, MaxIrrSeason) ==
    IF IrrCum + Irr > MaxIrrSeason THEN Max(0, MaxIrrSeason - IrrCum) ELSE Irr

\* irrigation(InitCond, IrrMngt, Crop, prof, Soil_zTop, GrowingSeason, Rain,
\* Runoff): [ok, Cond, Irr]; depths in 1/SC mm
irrigation(Cond, IM, Cr, p, zTop, GrowingSeason, Rain, Runoff) ==
    LET rz     == root_zone_water(p, Cond.Zroot, [i \in 1 .. Len(Cond.th) |-> 100 * Cond.th[i]],
                                  zTop, Cr.Zmin, Cr.Aer, 0)
        Finish(C, Irr) ==
            LET I == IrrSeasonCap(Irr, C.IrrCum, IM.MaxIrrSeason)
            IN  [ok |-> TRUE, Cond |-> [C EXCEPT !.IrrCum = @ + I], Irr |-> I]
        EffAdj(IrrReq) == (IrrReq * ((100 - IM.AppEff) + 100)) \div 100
        Season(o) ==
            LET AbvFc == IF o.thRZ.Act > o.thRZ.FC
                         THEN (((o.WrAct - o.WrFC) \div 100) * Max(Cond.Zroot, Cr.Zmin))
                                  \div o.rootdepth
                         ELSE 0
                WCadj == Cond.Tpot + Cond.Epot - Rain + Runoff - AbvFc
                Depl  == o.Dr.Rz \div 100 + WCadj
                TAW   == o.TAW.Rz \div 100
                C     == [Cond EXCEPT !.Depletion = Depl, !.TAW = TAW,
                                      !.GrowthStage = IF Cond.DAP = 1 THEN 1 ELSE @]
                m     == IM.IrrMethod
                sched == IM.Schedule[Cond.TimeStepCounter + 1]
            IN  IF m = 1 /\ TAW = 0 THEN [ok |-> FALSE, why |-> "ZeroDivisionError"]
                ELSE IF m = 2 /\ IM.IrrInterval = 0 THEN [ok |-> FALSE, why |-> "ZeroDivisionError"]
                ELSE IF m = 3 /\ sched < 0 THEN [ok |-> FALSE, why |-> "AssertionError"]
                ELSE Finish(C, Max(0,
                       CASE m = 0 -> 0
                         [] m = 1 -> IF Depl * 100 > TAW * (100 - IM.SMT[C.GrowthStage])
                                     THEN Min(IM.MaxIrr, EffAdj(Max(0, Depl))) ELSE 0
                         [] m = 2 -> IF (Cond.DAP - 1) % IM.IrrInterval = 0
                                     THEN Min(IM.MaxIrr, EffAdj(Max(0, Depl))) ELSE 0
                         [] m = 3 -> Min(IM.MaxIrr, sched)
                         [] m = 4 -> 0
                         [] m = 5 -> Min(IM.MaxIrr, IM.depth)))
    IN  IF GrowingSeason
        THEN IF rz.ok THEN Season(rz) ELSE rz
        ELSE Finish([Cond EXCEPT !.IrrCum = 0], 0)

----------------------------------------------------------------------------
(* water_stress                                                            *)
(* Thresholds, relative depletions and coefficients are in 1/SC.           *)

\* a relative depletion that keeps growing past the lower threshold
WsDrelUnbounded(Dr, TAW, up, lo) ==
    IF Dr * SC <= up * TAW THEN 0
    ELSE (((Dr * SC) \div Max(TAW, 1) - up) * SC) \div Max(lo - up, 1)

\* relative depletion for one stress type with thresholds up, lo
WsDrel(Dr, TAW, up, lo) ==
    IF Dr * SC <= up * TAW THEN 0
    ELSE IF Dr * SC < lo * TAW
    THEN SC - ((lo - (Dr * SC) \div TAW) * SC) \div (lo - up)
    ELSE SC

\* 1 - (exp(Drel * fshape) - 1) / (exp(fshape) - 1)
WsKs(Drel, fshape) ==
    SC - ((Exp((Drel * fshape) \div SC) - SC) * SC) \div (Exp(fshape) - SC)

\* water_stress(Crop, InitCond, Dr, TAW, Et0, beta)
water_stress(Cr, Cond, Dr, TAW, Et0, beta) ==
    LET adj(pv, ii) ==
            IF Cr.ETadj = 1 /\ ii <= 3
            THEN pv + (((4 * (5 * SC - Et0)) \div 100)
                        * ((Ln(10 * SC - 9 * pv) * SC) \div Ln10)) \div SC
            ELSE pv
        sen(pv, ii) == IF ii = 3 /\ beta /\ Cond.tEarlySen > 0
                       THEN (pv * (100 - Cr.beta)) \div 100 ELSE pv
        lim(pv)     == Min(Max(pv, 0), SC)
        Out(p_up, p_lo, Drel) ==
            [ p_up |-> p_up, p_lo |-> p_lo, Drel |-> Drel,
              Exp |-> WsKs(Drel[1], Cr.fshape_w[1]),
              Sto |-> WsKs(Drel[2], Cr.fshape_w[2]),
              Sen |-> WsKs(Drel[3], Cr.fshape_w[3]),
              Pol |-> SC - Drel[4], StoLin |-> SC - Drel[2] ]
        Stress(p_up, p_lo) ==
            Only({ Out(p_up, p_lo, Drel) :
                   Drel \in { [ii \in 1 .. 4 |-> WsDrel(Dr, TAW, p_up[ii], p_lo[ii])] } })
    IN  Only({ Stress(p_up, p_lo) :
               p_up \in { [ii \in 1 .. 4 |-> lim(sen(adj(Cr.p_up[ii], ii), ii))] },
               p_lo \in { [ii \in 1 .. 4 |-> lim(adj(Cr.p_lo[ii], ii))] } })

----------------------------------------------------------------------------
(* germination                                                             *)

\* delay counters that run on after germination
GermDelayAlways(Cond, GDD) ==
    [Cond EXCEPT !.DelayedCDs = @ + 1, !.DelayedGDDs = @ + GDD]

\* the delay counters and seed protection of a day without germination
GermDelay(Cond, GDD) ==
    IF ~Cond.Germination
    THEN [Cond EXCEPT !.DelayedCDs = @ + 1, !.DelayedGDDs = @ + GDD,
                      !.ProtectedSeed = FALSE]
    ELSE Cond

\* germination(InitCond, Soil_zGerm, prof, Crop_GermThr, Crop_PlantMethod,
\* GDD, GrowingSeason): [ok, Cond]; water contents are taken in
\* 1/(100 * SC) and storages rounded to 0.001 mm
germination(Cond, zGerm, p, GermThr, PlantMethod, GDD, GrowingSeason) ==
    LET n        == Len(p.dzsum)
        comp_sto == FirstAtOrBelow(p.dzsum, zGerm)
        cover(i) == IF p.dzsum[i] > zGerm THEN p.dz[i] - (p.dzsum[i] - zGerm) ELSE p.dz[i]
        W(v)     == Sum([i \in 1 .. comp_sto |-> RoundTo(100 * v[i] * cover(i), 100)]) \div 100
        Check(Wr, WrFC, WrWP) ==
            IF WrFC = WrWP THEN [ok |-> FALSE, why |-> "ZeroDivisionError"]
            ELSE LET sprout == (Wr - WrWP) * SC >= GermThr * (WrFC - WrWP)
                                   /\ ~Cond.Germination
                     C == IF sprout
                          THEN [Cond EXCEPT !.Germination = TRUE,
                                            !.ProtectedSeed = PlantMethod]
                          ELSE Cond
                 IN  [ok |-> TRUE, Cond |-> GermDelay(C, GDD)]
    IN  IF GrowingSeason
        THEN IF comp_sto > n THEN [ok |-> FALSE, why |-> "IndexError"]
             ELSE Check(Max(W(Cond.th), 0), W(p.th_fc), W(p.th_wp))
        ELSE [ok |-> TRUE,
              Cond |-> [Cond EXCEPT !.Germination = FALSE, !.ProtectedSeed = FALSE,
                                    !.DelayedCDs = 0, !.DelayedGDDs = 0]]

----------------------------------------------------------------------------
(* root_development (depths in mm)                                         *)

\* np.power(X, 1 / f) for X and f in 1/SC
PowInv(X, f) == IF X <= 0 THEN 0 ELSE Exp((Ln(X) * SC) \div f)

\* a root depth the water table does not limit
RootNoCeiling(Zroot, zGW, Zmin, WaterTable) == Zroot

\* the limit the water table puts on the root depth
RootCeiling(Zroot, zGW, Zmin, WaterTable) ==
    IF WaterTable = 1 /\ zGW > 0 /\ Zroot > zGW
    THEN (IF zGW < Zmin THEN Zmin ELSE zGW)
    ELSE Zroot

\* root_development(Crop, prof, InitCond, GDD, GrowingSeason, WaterTable)
root_development(Cr, p, Cond, GDD, GrowingSeason, WaterTable) ==
    LET n      == Len(p.dz)
        nLayer == Cardinality({p.Layer[i] : i \in 1 .. n})
        Zroot_init == IF Cond.DAP = 1 THEN Cr.Zmin ELSE Cond.Zroot
        tAdj   == IF Cr.CalendarType = 1 THEN Cond.DAP - Cond.DelayedCDs
                  ELSE Cond.GDDcum - Cond.DelayedGDDs
        tOld   == IF Cr.CalendarType = 1 THEN tAdj - 1 ELSE tAdj - GDD
        Zini   == (Cr.Zmin * Cr.PctZmin) \div 100
        t0     == RoundTo(Cr.Emergence, 2) \div 2
        tmax   == Cr.MaxRooting
        Pot(t) == Max(Cr.Zmin,
                      IF t >= tmax THEN Cr.Zmax
                      ELSE IF t <= t0 THEN Zini
                      ELSE Zini + ((Cr.Zmax - Zini)
                                     * PowInv(((t - t0) * SC) \div (tmax - t0), Cr.fshape_r))
                                  \div SC)
        ZrOld  == Pot(tOld)
        ZrPot  == Pot(tAdj)
        \* thickness and first compartment of a soil layer
        LayerDz(l)   == Sum([i \in 1 .. n |-> IF p.Layer[i] = l THEN p.dz[i] ELSE 0])
        LayerComp(l) == CHOOSE i \in 1 .. n :
                           p.Layer[i] = l /\ \A j \in 1 .. n : p.Layer[j] = l => i <= j
        \* the layer the minimum root depth ends in, and the depth of its bottom
        RECURSIVE FirstLayer(_, _)
        FirstLayer(layeri, Zsoil) ==
            IF RoundTo(Zsoil, 10) <= Cr.Zmin /\ layeri < nLayer
            THEN FirstLayer(layeri + 1, Zsoil + LayerDz(layeri + 1))
            ELSE [layeri |-> layeri, Zsoil |-> Zsoil]
        \* root depth reached through layers of restricted penetrability
        RECURSIVE Restricted(_, _, _, _, _)
        Restricted(layeri, Zsoil, ZrAdj, ZrRemain, deltaZ) ==
            LET pen    == p.Penetrability[LayerComp(layeri)]
                ZrTest == ZrAdj + (ZrRemain * pen) \div 100
            IN  IF layeri = nLayer \/ pen = 0 \/ ZrTest <= Zsoil THEN ZrTest
                ELSE Restricted(layeri + 1, Zsoil + LayerDz(layeri + 1), Zsoil,
                                ZrRemain - (deltaZ * 100) \div pen, LayerDz(layeri + 1))
        first  == FirstLayer(1, LayerDz(1))
        Zr     == IF ZrPot > Cr.Zmin
                  THEN Restricted(first.layeri, first.Zsoil, Cr.Zmin,
                                  ZrPot - Cr.Zmin, first.Zsoil - Cr.Zmin)
                  ELSE ZrPot
        dZr1   == IF Cond.TrRatio < SC
                  THEN IF Cr.fshape_ex >= 0 THEN ((Zr - ZrOld) * Cond.TrRatio) \div SC
                       ELSE ((Zr - ZrOld)
                               * (((Exp((Cond.TrRatio * Cr.fshape_ex) \div SC) - SC) * SC)
                                     \div (Exp(Cr.fshape_ex) - SC))) \div SC
                  ELSE Zr - ZrOld
        \* the day's growth from the potential depth Zp and the increment dZ
        Grown(Zp, dZ) ==
            LET idx    == FirstAtOrBelow(p.dzsum, Zroot_init + dZ)
                Dry(i) == LET pZexp   == Cr.p_up[2] + (SC - Cr.p_up[2]) \div 2
                              TAWprof == p.th_fc[i] - p.th_wp[i]
                              thThr   == p.th_fc[i] - (pZexp * TAWprof) \div SC
                              Wrel    == ((p.th_fc[i] - Cond.th[i]) * SC) \div TAWprof
                              Drel    == SC - ((SC - Wrel) * SC) \div (SC - pZexp)
                          IN  IF Cond.th[i] < thThr
                              THEN IF Cond.th[i] <= p.th_wp[i] THEN 0
                                   ELSE (dZ * WsKs(Drel, Cr.fshape_w[2])) \div SC
                              ELSE dZ
                dZr2   == IF dZ > 1 THEN Dry(idx) ELSE dZ
                dZr    == IF (Cond.CC <= 0 /\ 2 * Cond.CC_NS > SC) \/ ~Cond.Germination
                          THEN 0 ELSE dZr2
                Zroot  == Zroot_init + dZr
                rCor0  == (((Zp * (Cr.SxTop + Cr.SxBot) * SC) \div Zroot) - Cr.SxTop * SC)
                              \div Cr.SxBot
                rCor   == IF Zroot < Zp
                          THEN IF Cond.Tpot > 0 THEN Max((rCor0 * Cond.TrRatio) \div SC, SC)
                               ELSE rCor0
                          ELSE SC
            IN  IF dZ > 1 /\ idx > n THEN [ok |-> FALSE, why |-> "IndexError"]
                ELSE IF Zroot = 0 /\ Zroot < Zp
                THEN [ok |-> FALSE, why |-> "ZeroDivisionError"]
                ELSE [ok |-> TRUE, ZrPot |-> Zp, Zfree |-> Zroot,
                      Cond |-> [Cond EXCEPT !.rCor = rCor,
                                            !.Zroot = RootCeiling(Zroot, Cond.zGW, Cr.Zmin,
                                                                  WaterTable)]]
    IN  IF ~GrowingSeason THEN [ok |-> TRUE, Cond |-> [Cond EXCEPT !.Zroot = 0]]
        ELSE Grown(ZrPot, dZr1)

----------------------------------------------------------------------------
(* canopy_cover                                                            *)
(* Canopy covers are in 1/(10 * SC), so that 0.001 is 10; growth and       *)
(* decline coefficients are in 1/SC per day; times passed to               *)
(* cc_development are in 1/SC day.                                         *)

\* (a * E) / SC for E in 1/SC, formed within the integer range
Scale(a, E) == a * (E \div SC) + (a * (E % SC)) \div SC

\* cc_development(CCo, CCx, CGC, CDC, dt, Mode, CCx0)
cc_development(CCo, CCx, CGC, CDC, dt, Mode, CCx0) ==
    LET E    == Exp((CGC * dt) \div SC)
        CC1  == Scale(CCo, E)
        \* CCx - 0.25 * (CCx / CCo) * CCx * exp(-CGC * dt)
        CC2  == CCx - (((((CCx * SC) \div CCo) * SC) \div E) * CCx) \div (4 * SC)
        grow == Min(IF 2 * CC1 > CCx THEN CC2 ELSE CC1, CCx)
        r    == ((CCx + 22900) * SC) \div (CCx0 + 22900)
        y    == (((((((dt * CDC) \div SC) * 333) \div 100) * r) \div SC) * (10 * SC))
                    \div (CCx + 22900)
        Ed   == Exp(y)
        \* CCx * (1 - 0.05 * (exp(y) - 1)), a negative value being cut to 0 below
        fall == IF CCx < 10 \/ Ed >= 21 * SC THEN 0
                ELSE (CCx * (21 * SC - Ed)) \div (20 * SC)
    IN  Min(Max(IF Mode = "Growth" THEN grow ELSE fall, 0), 10 * SC)

\* cc_required_time(CCprev, CCo, CCx, CGC, CDC, "CGC"): [ok, t], t in 1/SC day;
\* a logarithm that is nan or -inf in the code is negative here
cc_required_time(CCprev, CCo, CCx, CGC, CDC) ==
    LET num  == (CCx * CCx) \div (4 * CCo)
        den  == CCx - CCprev
        arg  == IF 2 * CCprev <= CCx THEN (CCprev * SC) \div CCo
                ELSE IF den < 0 THEN 0
                ELSE IF num < 2 * SC2 THEN (num * SC) \div den
                ELSE (num \div den) * SC
    IN  IF CCo = 0 \/ (2 * CCprev > CCx /\ den = 0) \/ CGC = 0
        THEN [ok |-> FALSE, why |-> "ZeroDivisionError"]
        ELSE [ok |-> TRUE, t |-> (Ln(arg) * SC) \div CGC]

\* adjust_CCx(CCprev, CCo, CCx, CGC, CDC, dt, tSum, Crop_CanopyDevEnd, Crop_CCx):
\* [ok, v]; tSum and Crop_CanopyDevEnd in days
adjust_CCx(CCprev, CCo, CCx, CGC, CDC, dt, tSum, Crop_CanopyDevEnd, Crop_CCx) ==
    LET Adj(tr) ==
            IF ~tr.ok THEN tr
            ELSE IF tr.t > 0
            THEN [ok |-> TRUE,
                  v  |-> cc_development(CCo, CCx, CGC, CDC,
                                        tr.t + (Crop_CanopyDevEnd - tSum) * SC + dt,
                                        "Growth", Crop_CCx)]
            ELSE [ok |-> TRUE, v |-> 0]
    IN  Only({ Adj(tr) : tr \in { cc_required_time(CCprev, CCo, CCx, CGC, CDC) } })

\* update_CCx_CDC(CCprev, CDC, CCx, dt): [ok, CCx, CDC]
update_CCx_CDC(CCprev, CDC, CCx, dt) ==
    LET E   == Exp((dt * ((CDC * 3330) \div ((CCx + 22900) \div 10))) \div SC)
        Out(CCXadj) == [ok |-> TRUE, CCx |-> CCXadj,
                        CDC |-> (CDC * (CCXadj + 22900)) \div (CCx + 22900)]
    IN  IF E = 21 * SC THEN [ok |-> FALSE, why |-> "ZeroDivisionError"]
        ELSE Only({ Out(v) : v \in { (CCprev * 20 * SC) \div (21 * SC - E) } })

\* a canopy that is never declared dead
CropNeverTerminated(C, WasDead) == C

\* the check for crop growth termination
CropTermination(C, WasDead) ==
    IF C.CC < 10 /\ ~WasDead THEN [C EXCEPT !.CC = 0, !.CropDead = TRUE] ELSE C

\* canopy_cover(Crop, Soil_Profile, Soil_zTop, InitCond, GDD, Et0,
\* GrowingSeason): [ok, Cond, tCCadj, sen]; sen names the branch the
\* senescence part took
canopy_cover(Cr, p, zTop, I, GDD, Et0, GrowingSeason) ==
    LET dtCC == IF Cr.CalendarType = 1 THEN 1 ELSE GDD
        t    == IF Cr.CalendarType = 1 THEN I.DAP - I.DelayedCDs
                ELSE I.GDDcum - I.DelayedGDDs
        \* round(tCCadj) is tCCadj for a whole number of days
        idle == t < Cr.Emergence \/ t > Cr.Maturity
        full == cc_development(Cr.CC0, Cr.CCx, Cr.CGC, Cr.CDC, (t - Cr.Emergence) * SC,
                               "Growth", Cr.CCx)
        Good(C) == [ok |-> TRUE, Cond |-> C]
        \* canopy development (potential)
        Potential(C) ==
            IF idle THEN [C EXCEPT !.CC_NS = 0]
            ELSE IF t < Cr.CanopyDevEnd
            THEN LET v == IF I.CC_NS <= Cr.CC0 THEN Scale(Cr.CC0, Exp(Cr.CGC * dtCC))
                          ELSE cc_development(Cr.CC0, (98 * Cr.CCx) \div 100, Cr.CGC, Cr.CDC,
                                              (t - Cr.Emergence) * SC, "Growth", Cr.CCx)
                 IN  [C EXCEPT !.CC_NS = v, !.CCxAct_NS = v]
            ELSE IF t > Cr.CanopyDevEnd
            THEN IF t < Cr.Senescence
                 THEN [C EXCEPT !.CCxW_NS = C.CCxAct_NS, !.CC_NS = I.CC_NS,
                                !.CCxAct_NS = I.CC_NS]
                 ELSE [C EXCEPT !.CCxW_NS = C.CCxAct_NS,
                                !.CC_NS = cc_development(Cr.CC0, C.CCxAct_NS, Cr.CGC, Cr.CDC,
                                                         (t - Cr.Senescence) * SC, "Decline",
                                                         C.CCxAct_NS)]
            ELSE C
        \* canopy growing under leaf expansion stress
        Stressed(C, CGCadj, adj) ==
            IF ~adj.ok THEN adj
            ELSE IF adj.v < 0 THEN Good([C EXCEPT !.CC = I.CC])
            ELSE IF Abs(10 * I.CC * SC - 9799 * Cr.CCx) < 10 * 10 * SC
            THEN Good([C EXCEPT !.CC = full])
            ELSE LET Req(tr) ==
                         IF ~tr.ok THEN tr
                         ELSE IF tr.t > 0
                         THEN Good([C EXCEPT !.CC = cc_development(C.CC0adj, adj.v, CGCadj,
                                                       Cr.CDC, tr.t + dtCC * SC, "Growth",
                                                       Cr.CCx)])
                         ELSE Good([C EXCEPT !.CC = I.CC])
                 IN  Only({ Req(tr) : tr \in { cc_required_time(I.CC, C.CC0adj, adj.v,
                                                                 CGCadj, Cr.CDC) } })
        Growing(C, CGCadj) ==
            IF I.CC <= C.CC0adj \/ (I.ProtectedSeed /\ 4 * I.CC <= 5 * C.CC0adj)
            THEN IF I.ProtectedSeed
                 THEN Good([C EXCEPT !.CC = full,
                                     !.ProtectedSeed = IF 4 * full > 5 * C.CC0adj
                                                       THEN FALSE ELSE @])
                 ELSE Good([C EXCEPT !.CC = Scale(C.CC0adj, Exp(Cr.CGC * dtCC))])
            ELSE IF 10 * I.CC * SC < 9799 * Cr.CCx
            THEN IF CGCadj > 0
                 THEN Only({ Stressed(C, CGCadj, adj) :
                               adj \in { adjust_CCx(I.CC, C.CC0adj, Cr.CCx, CGCadj, Cr.CDC,
                                                    dtCC * SC, t, Cr.CanopyDevEnd, Cr.CCx) } })
                 ELSE Good([C EXCEPT !.CC = I.CC,
                                     !.CC0adj = IF I.CC > C.CC0adj THEN Cr.CC0 ELSE I.CC])
            ELSE Good([C EXCEPT !.CC = full, !.CC0adj = Cr.CC0])
        Grown(g) == IF g.ok /\ g.Cond.CC > I.CCxAct
                    THEN Good([g.Cond EXCEPT !.CCxAct = g.Cond.CC]) ELSE g
        \* canopy development (actual)
        Actual(C, Ksw) ==
            IF idle THEN Good([C EXCEPT !.CC = 0, !.CC0adj = Cr.CC0])
            ELSE IF t < Cr.CanopyDevEnd
            THEN Only({ Grown(g) : g \in { Growing(C, (Cr.CGC * Ksw.Exp) \div SC) } })
            ELSE IF t > Cr.CanopyDevEnd
            THEN Good(CropTermination(
                     IF t < Cr.Senescence
                     THEN [C EXCEPT !.CC = I.CC, !.CCxAct = Max(I.CC, I.CCxAct)]
                     ELSE [C EXCEPT !.CC = cc_development(C.CC0adj, C.CCxAct, Cr.CGC,
                                              (Cr.CDC * (C.CCxAct + 22900))
                                                  \div (Cr.CCx + 22900),
                                              (t - Cr.Senescence) * SC, "Decline", C.CCxAct)],
                     I.CropDead))
            ELSE Good(C)
        \* early canopy senescence
        EarlySen(C, Dr, TAW) ==
            LET C1 == [C EXCEPT !.PrematSenes = TRUE,
                                !.CCxEarlySen = IF I.tEarlySen = 0 THEN I.CC ELSE @,
                                !.tEarlySen = I.tEarlySen + dtCC]
                \* (CDCadj * 3.33) / (CCxEarlySen + 2.29) in 1/SC2, CDCadj being
                \* (1 - Ksw.Sen ** 8) * CDC, or 0.0001 when Ksw.Sen > 0.99999
                Rate(Sen) ==
                    LET Sen2 == (Sen * Sen) \div SC
                        Sen4 == (Sen2 * Sen2) \div SC
                        x    == (C1.CCxEarlySen + 22900) \div 10
                    IN  IF Sen >= SC THEN (100 * 3330) \div x
                        ELSE (((SC - (Sen4 * Sen4) \div SC) * 3330) \div x) * Cr.CDC
                arg == SC + 20 * (SC - (I.CC * SC) \div C1.CCxEarlySen)
                \* tReq in 1/100 day
                tReq(d) == (Ln(arg) * 100 * SC) \div d
                Fallen(E) == IF E >= 21 * SC THEN 0
                             ELSE (C1.CCxEarlySen * (21 * SC - E)) \div (20 * SC)
                Cut(v) == [C1 EXCEPT !.CC = v, !.CCxAct = v,
                                     !.CC0adj = IF v < Cr.CC0 THEN v ELSE Cr.CC0]
                Done(CCsen) ==
                    [ok |-> TRUE, sen |-> "stress",
                     Cond |-> CropTermination(
                                 IF t < Cr.Senescence THEN Cut(Min(Min(CCsen, Cr.CCx), I.CC))
                                 ELSE [C1 EXCEPT !.CC = Min(CCsen, @)],
                                 I.CropDead)]
                Sized(d) ==
                    IF C1.CCxEarlySen < 10 THEN Done(0)
                    ELSE IF d = 0 THEN [ok |-> FALSE, why |-> "ZeroDivisionError"]
                    ELSE IF arg <= 0 THEN [ok |-> FALSE, why |-> "nan"]
                    ELSE Only({ Done(Fallen(E)) :
                                E \in { Exp(((tReq(d) + 100 * dtCC) * d) \div (100 * SC)) } })
            IN  Only({ Sized(Rate(Sen)) :
                       Sen \in { water_stress(Cr, C1, Dr, TAW, Et0, FALSE).Sen } })
        \* no water stress; rewatering of the canopy in late season
        Relief(C) ==
            LET C1 == [C EXCEPT !.PrematSenes = FALSE, !.tEarlySen = 0]
                Rewater(u) ==
                    IF ~u.ok THEN u
                    ELSE [ok |-> TRUE, sen |-> "rewatering",
                          Cond |-> CropTermination(
                                      [C1 EXCEPT !.CCxAct = u.CCx,
                                                 !.CC = cc_development(C.CC0adj, u.CCx, Cr.CGC,
                                                            u.CDC, (t - Cr.Senescence) * SC,
                                                            "Decline", u.CCx)],
                                      I.CropDead)]
            IN  IF t > Cr.Senescence /\ I.tEarlySen > 0
                THEN Only({ Rewater(u) :
                            u \in { update_CCx_CDC(I.CC, Cr.CDC, Cr.CCx,
                                                   (t - dtCC - Cr.Senescence) * SC) } })
                ELSE [ok |-> TRUE, sen |-> "relief", Cond |-> C1]
        Withered(r) == IF r.ok /\ r.Cond.CC > I.CCxW
                       THEN [r EXCEPT !.Cond.CCxW = r.Cond.CC] ELSE r
        \* canopy senescence due to water stress (actual)
        Senescence(g, Ksw, Dr, TAW) ==
            IF ~g.ok THEN g
            ELSE IF t >= Cr.Emergence /\ (t < Cr.Senescence \/ I.tEarlySen > 0)
            THEN Only({ Withered(r) :
                        r \in { IF Ksw.Sen < SC /\ ~I.ProtectedSeed
                                THEN EarlySen(g.Cond, Dr, TAW) ELSE Relief(g.Cond) } })
            ELSE [ok |-> TRUE, sen |-> "none", Cond |-> g.Cond]
        \* canopy size adjusted for micro-advective effects
        Adv(c) == (172 * c) \div 100 - (c * c) \div (10 * SC)
                    + (3 * ((((c * c) \div (10 * SC)) * c) \div (10 * SC))) \div 10
        Final(r) ==
            IF ~r.ok THEN r
            ELSE [ok |-> TRUE, sen |-> r.sen, tCCadj |-> t,
                  Cond |-> [r.Cond EXCEPT
                              !.CC_NS = Max(@, r.Cond.CC),
                              !.CCxAct_NS = IF r.Cond.CC_NS < r.Cond.CC /\ t < Cr.CanopyDevEnd
                                            THEN r.Cond.CC ELSE @,
                              !.CCadj = Adv(r.Cond.CC),
                              !.CCadj_NS = Adv(Max(r.Cond.CC_NS, r.Cond.CC))]]
        \* the four parts in turn, each on the outcome of the one before
        Run(C, Ksw, Dr, TAW) ==
            Only({ Final(s) : s \in { Senescence(g, Ksw, Dr, TAW) :
                                 g \in { Actual(q, Ksw) : q \in { Potential(C) } } } })
        \* the depletion of the root zone or of the top soil, whichever is wetter
        Season(C, rz) ==
            IF ~rz.ok THEN rz
            ELSE IF rz.TAW.Rz \div 100 = 0 \/ rz.TAW.Zt \div 100 = 0
            THEN [ok |-> FALSE, why |-> "ZeroDivisionError"]
            ELSE LET Pick(Dr, TAW) ==
                         Only({ Run(C, Ksw, Dr, TAW) :
                                Ksw \in { water_stress(Cr, C, Dr, TAW, Et0, TRUE) } })
                 IN  IF ((rz.Dr.Rz \div 100) * SC) \div (rz.TAW.Rz \div 100)
                           <= ((rz.Dr.Zt \div 100) * SC) \div (rz.TAW.Zt \div 100)
                     THEN Pick(rz.Dr.Rz \div 100, rz.TAW.Rz \div 100)
                     ELSE Pick(rz.Dr.Zt \div 100, rz.TAW.Zt \div 100)
        Start(C) ==
            IF GrowingSeason
            THEN Only({ Season(C, rz) :
                        rz \in { root_zone_water(p, I.Zroot,
                                                 [i \in 1 .. Len(I.th) |-> 100 * I.th[i]],
                                                 zTop, Cr.Zmin, Cr.Aer, 0) } })
            ELSE [ok |-> TRUE, sen |-> "none", tCCadj |-> t,
                  Cond |-> [C EXCEPT !.CC = 0, !.CCadj = 0, !.CC_NS = 0, !.CCadj_NS = 0,
                                     !.CCxW = 0, !.CCxAct = 0, !.CCxW_NS = 0,
                                     !.CCxAct_NS = 0]]
    IN  Start([I EXCEPT !.CCprev = I.CC])


----------------------------------------------------------------------------
(* harvest_index                                                           *)
(* Harvest indices, stress coefficients and adjustment factors are in      *)
(* 1/SC, canopy covers in 1/(10 * SC), times in days, temperatures in      *)
(* degrees.                                                                *)

\* HIref_current_day(InitCond, Crop, GrowingSeason)
HIref_current_day(I, Cr, GrowingSeason) ==
    LET tAdj == I.DAP - I.DelayedCDs
        HIt  == tAdj - Cr.HIstartCD - 1
        \* (HIini * HI0) / (HIini + (HI0 - HIini) * exp(-HIGC * t)), both sides
        \* of the division multiplied by exp(HIGC * t)
        Logistic(E) == Scale(Cr.HIini * Cr.HI0, E) \div (Scale(Cr.HIini, E) + (Cr.HI0 - Cr.HIini))
        Built(t) == Only({ Logistic(E) : E \in { Exp(Cr.HIGC * t) } })
        Raw == IF Cr.CropType \in {1, 2}
               THEN Only({ IF 10 * v * SC >= 9799 * Cr.HI0 THEN Cr.HI0 ELSE v :
                           v \in { Built(HIt) } })
               ELSE IF HIt < Cr.tLinSwitch THEN Built(HIt)
               ELSE Built(Cr.tLinSwitch) + Cr.dHILinear * (HIt - Cr.tLinSwitch)
        Lim(v) == IF v > Cr.HI0 THEN Cr.HI0
                  ELSE IF v <= Cr.HIini + 4 THEN 0
                  ELSE IF Cr.HI0 - v < 4 THEN Cr.HI0
                  ELSE v
        Y == [I EXCEPT !.YieldForm = tAdj > Cr.HIstartCD]
    IN  IF ~GrowingSeason THEN [I EXCEPT !.HIref = 0]
        ELSE IF HIt <= 0 THEN [Y EXCEPT !.HIref = 0, !.PctLagPhase = 0]
        ELSE IF I.CCprev * SC <= Cr.CCmin * Cr.CCx THEN Y
        ELSE [Y EXCEPT !.HIref = Only({ Lim(v) : v \in { Raw } }),
                       !.PctLagPhase = IF Cr.CropType = 3 /\ HIt < Cr.tLinSwitch
                                       THEN (100 * HIt) \div Cr.tLinSwitch ELSE 100]

\* temperature_stress(Crop, Tmax, Tmin): the pollination coefficients
temperature_stress(Cr, Tmax, Tmin) ==
    LET \* 0.001 / (0.001 + 0.999 * exp(-fshape_b * (1 - Trel)))
        Part(E)  == IF E > 2 * SC2 THEN E \div ((E + 999 * SC) \div SC)
                    ELSE (E * SC) \div (E + 999 * SC)
        Ks(Trel) == Only({ Part(E) : E \in { Exp((Cr.fshape_b * (SC - Trel)) \div SC) } })
    IN  [ PolH |-> IF Cr.PolHeatStress = 0 \/ Tmax <= Cr.Tmax_lo THEN SC
                   ELSE IF Tmax >= Cr.Tmax_up THEN 0
                   ELSE Ks(((Tmax - Cr.Tmax_lo) * SC) \div (Cr.Tmax_up - Cr.Tmax_lo)),
          PolC |-> IF Cr.PolColdStress = 0 \/ Tmin >= Cr.Tmin_up THEN SC
                   ELSE IF Tmin <= Cr.Tmin_lo THEN 0
                   ELSE Ks(((Cr.Tmin_up - Tmin) * SC) \div (Cr.Tmin_up - Cr.Tmin_lo)) ]

\* a pre-anthesis adjustment that takes no account of the canopy cover
HIadjPreNeutral(I, dHI_pre) == [ok |-> TRUE, Cond |-> [I EXCEPT !.Fpre = SC]]

\* HIadj_pre_anthesis(InitCond, Crop_dHI_pre): [ok, Cond]
HIadj_pre_anthesis(I, dHI_pre) ==
    LET \* np.sin(x * np.pi) for x in [0.5, 1.5], in 1/SC: sin(pi - x * pi) by
        \* its series
        SinPi(x) ==
            LET Series(y, y2) ==
                    y - (((y * y2) \div SC) \div 6)
                      + (((((y * y2) \div SC) * y2) \div SC) \div 120)
                      - (((((((y * y2) \div SC) * y2) \div SC) * y2) \div SC) \div 5040)
            IN  Only({ Series(y, (y * y) \div SC) : y \in { ((SC - x) * 3142) \div SC } })
        Lift(x) == SC + (((SC + SinPi(x)) \div 2) * dHI_pre) \div 100
        Adj(Br, Br_range) ==
            LET Br_low == SC - Br_range
                Br_top == SC - Br_range \div 3
            IN  IF Br_top = Br_low \/ SC = Br_top
                THEN [ok |-> FALSE, why |-> "ZeroDivisionError"]
                ELSE [ok |-> TRUE,
                      Fpre |-> IF Br >= Br_low /\ Br < Br_top
                               THEN Lift(1500 - ((Br - Br_low) * SC) \div (Br_top - Br_low))
                               ELSE IF Br > Br_top /\ Br <= SC
                               THEN Lift(500 + ((Br - Br_top) * SC) \div (SC - Br_top))
                               ELSE SC]
        Act == IF dHI_pre > 0
               THEN IF I.B_NS = 0 THEN [ok |-> FALSE, why |-> "ZeroDivisionError"]
                    ELSE Only({ Adj((I.B * SC) \div I.B_NS, r) :
                                r \in { (Ln(dHI_pre * SC) * SC) \div 5620 } })
               ELSE [ok |-> TRUE, Fpre |-> SC]
        Seen(a) == IF ~a.ok THEN a
                   ELSE [ok |-> TRUE,
                         Cond |-> [I EXCEPT !.Fpre = IF I.CC <= 100 THEN 0 ELSE a.Fpre]]
    IN  Only({ Seen(a) : a \in { Act } })

\* HIadj_pollination(InitCond_CC, InitCond_Fpol, Crop_FloweringCD, Crop_CCmin,
\* Crop_exc, Ksw, Kst, HIt), for HIt > 0: the new Fpol
HIadj_pollination(CC, Fpol, FloweringCD, CCmin, exc, Ksw, Kst, HIt) ==
    LET \* 0.00558 * exp(0.63 * log(tPct)) - 0.000969 * tPct - 0.00383, in 1/SC2
        Curve(tPct) == (5580 * Exp((630 * Ln(tPct)) \div SC)) \div SC
                         - (969 * tPct) \div SC - 3830
        F(t) == IF t = 0 THEN 0
                ELSE Only({ Max(Curve(tPct), 0) :
                            tPct \in { Min((100 * SC * t) \div FloweringCD, 100 * SC) } })
        Flow(F1, F2) == IF F1 = F2 THEN 0 ELSE (100 * ((F1 + F2) \div 2)) \div FloweringCD
        Ks == Min(Ksw.Pol, Min(Kst.PolC, Kst.PolH))
        dFpol(FracFlow) == IF CC < 10 * CCmin THEN 0
                           ELSE (((Ks * (FracFlow \div SC)) \div SC) * (100 + exc)) \div 100
    IN  Only({ Min(Fpol + dFpol(Flow(F1, F2)), SC) :
               F1 \in { F(HIt - 1) }, F2 \in { F(HIt) } })

\* HIadj_post_anthesis(InitCond, Crop, Ksw), for HIt > 0
HIadj_post_anthesis(I, Cr, Ksw) ==
    LET tmax1  == Cr.CanopyDevEndCD - Cr.HIstartCD
        tmax2  == Cr.YldFormCD
        DAP    == I.DAP - I.DelayedCDs
        DayCor == DAP - 1 - Cr.HIstartCD
        Well   == I.Fpre > 990 /\ I.CC > 10
        \* np.power(Ksw.Sto, 0.1)
        Root10 == IF Ksw.Sto <= 0 THEN 0 ELSE Exp(Ln(Ksw.Sto) \div 10)
        Up(C)  == IF DAP <= Cr.CanopyDevEndCD + 1 /\ tmax1 > 0 /\ Well /\ Cr.a_HI > 0
                  THEN Only({ [C EXCEPT !.sCor1 = s, !.fpost_upp = (tmax1 * s) \div DayCor] :
                              s \in { C.sCor1 + (SC + (SC - Ksw.Exp) \div Cr.a_HI) \div tmax1 } })
                  ELSE C
        Dwn(C) == IF DAP <= Cr.HIendCD + 1 /\ tmax2 > 0 /\ Well /\ Cr.b_HI > 0
                  THEN Only({ [C EXCEPT !.sCor2 = s, !.fpost_dwn = (tmax2 * s) \div DayCor] :
                              s \in { C.sCor2
                                      + ((Root10 * (SC - (SC - Ksw.Sto) \div Cr.b_HI)) \div SC)
                                          \div tmax2 } })
                  ELSE C
        Joined(C) ==
            [C EXCEPT !.Fpost =
                IF tmax1 = 0 /\ tmax2 = 0 THEN SC
                ELSE IF tmax2 = 0 THEN C.fpost_upp
                ELSE IF tmax1 = 0 THEN C.fpost_dwn
                ELSE IF tmax1 <= tmax2
                THEN (C.fpost_dwn * ((tmax1 * C.fpost_upp + (tmax2 - tmax1) * SC) \div tmax2)) \div SC
                ELSE (C.fpost_upp * ((tmax2 * C.fpost_dwn + (tmax1 - tmax2) * SC) \div tmax1)) \div SC]
    IN  Only({ Joined(C) : C \in { Dwn(Up(I)) } })

\* a harvest index multiplier left as it is
HImultUncapped(HImult, dHI0) == HImult

\* the harvest index multiplier limited to 1 + dHI0 / 100
HImultCap(HImult, dHI0) ==
    IF HImult > SC + 10 * dHI0 THEN SC + 10 * dHI0 ELSE HImult

\* harvest_index(Soil_Profile, Soil_zTop, Crop, InitCond, Et0, Tmax, Tmin,
\* GrowingSeason): [ok, Cond]
harvest_index(p, zTop, Cr, I, Et0, Tmax, Tmin, GrowingSeason) ==
    LET HIt == I.DAP - I.DelayedCDs - Cr.HIstartCD - 1
        HIi == I.HIref
        Set(C, HI, HIadj) == [ok |-> TRUE, Cond |-> [C EXCEPT !.HI = HI, !.HIadj = HIadj]]
        Adjusted(C, HImax) ==
            Only({ Set(C, HIi, (HImult * (IF HImax >= HIi THEN HIi ELSE HImax)) \div SC) :
                   HImult \in { HImultCap((C.Fpre * C.Fpost) \div SC, Cr.dHI0) } })
        Post(C, Ksw) == IF HIt > 0 THEN HIadj_post_anthesis(C, Cr, Ksw) ELSE C
        Pollinated(C, Ksw) ==
            IF Cr.CropType = 3
            THEN Only({ Only({ Adjusted(D, (D.Fpol * Cr.HI0) \div SC) :
                               D \in { Post([C EXCEPT !.Fpol = Fpol], Ksw) } }) :
                        Fpol \in { IF HIt > 0 /\ HIt <= Cr.FloweringCD
                                   THEN HIadj_pollination(I.CC, I.Fpol, Cr.FloweringCD,
                                            Cr.CCmin, Cr.exc, Ksw,
                                            temperature_stress(Cr, Tmax, Tmin), HIt)
                                   ELSE C.Fpol } })
            ELSE Only({ Adjusted(D, Cr.HI0) : D \in { Post(C, Ksw) } })
        Formed(Ksw) ==
            IF Cr.CropType \in {2, 3}
            THEN IF ~I.PreAdj
                 THEN Only({ IF pre.ok THEN Pollinated(pre.Cond, Ksw) ELSE pre :
                             pre \in { HIadj_pre_anthesis([I EXCEPT !.PreAdj = TRUE],
                                                          Cr.dHI_pre) } })
                 ELSE Pollinated(I, Ksw)
            ELSE IF Cr.CropType = 1 THEN Set(I, HIi, HIi)
            ELSE [ok |-> FALSE, why |-> "UnboundLocalError"]
        Season(rz) ==
            IF ~rz.ok THEN rz
            ELSE IF rz.TAW.Rz \div 100 = 0 \/ rz.TAW.Zt \div 100 = 0
            THEN [ok |-> FALSE, why |-> "ZeroDivisionError"]
            ELSE LET Pick(Dr, TAW) ==
                         Only({ IF I.YieldForm /\ HIt >= 0 THEN Formed(Ksw)
                                ELSE Set(I, I.HI, I.HIadj) :
                                Ksw \in { water_stress(Cr, I, Dr, TAW, Et0, TRUE) } })
                 IN  IF ((rz.Dr.Rz \div 100) * SC) \div (rz.TAW.Rz \div 100)
                           <= ((rz.Dr.Zt \div 100) * SC) \div (rz.TAW.Zt \div 100)
                     THEN Pick(rz.Dr.Rz \div 100, rz.TAW.Rz \div 100)
                     ELSE Pick(rz.Dr.Zt \div 100, rz.TAW.Zt \div 100)
    IN  IF GrowingSeason
        THEN Only({ Season(rz) :
                    rz \in { root_zone_water(p, I.Zroot,
                                             [i \in 1 .. Len(I.th) |-> 100 * I.th[i]],
                                             zTop, Cr.Zmin, Cr.Aer, 0) } })
        ELSE Set(I, 0, 0)

----------------------------------------------------------------------------
(* transpiration                                                           *)
(* Water contents of the state are in 1/(100 * SC), depths of water in     *)
(* 1/SC mm, coefficients in 1/SC, canopy covers in 1/(10 * SC), maximum    *)
(* root extraction rates in 1/(100 * SC) per day.                          *)

\* aeration_stress(NewCond_AerDays, Crop_LagAer, thRZ): [ok, Ksa, AerDays]
aeration_stress(AerDays, LagAer, thRZ) ==
    IF thRZ.Act > thRZ.Aer
    THEN IF thRZ.S = thRZ.Aer THEN [ok |-> FALSE, why |-> "ZeroDivisionError"]
         ELSE LET rel == ((thRZ.S - thRZ.Act) * SC) \div (thRZ.S - thRZ.Aer)
              IN  [ok |-> TRUE,
                   Ksa |-> IF AerDays < LagAer THEN SC - (AerDays * (SC - rel)) \div 3
                           ELSE rel,
                   AerDays |-> Min(AerDays + 1, LagAer)]
    ELSE [ok |-> TRUE, Ksa |-> SC, AerDays |-> 0]

\* the stress factor of a compartment's sink with the soil-moisture
\* coefficient applied whatever the irrigation method
TrSinkStressed(IrrMethod, KsComp, AerComp) == Min(KsComp, AerComp)

\* the stress factor of a compartment's sink
TrSink(IrrMethod, KsComp, AerComp) ==
    IF IrrMethod = 4 THEN AerComp ELSE Min(KsComp, AerComp)

\* the potential transpiration of a canopy: Kcb * CCadj * Et0, reduced for
\* the age of the canopy, the CO2 concentration and a canopy below CCxW
TrPotOf(Cr, CO2, Et0, Age, CCadj, CC, CCxW) ==
    LET aged == IF Age > 5 THEN Cr.Kcb - ((Age - 5) * Cr.fage * CCxW) \div SC2
                ELSE Cr.Kcb
        Kcb  == IF CO2.CurrentConc > CO2.RefConc
                THEN (aged * (SC - (50 * (CO2.CurrentConc - CO2.RefConc))
                                       \div (550 - CO2.RefConc))) \div SC
                ELSE aged
        Full(k) == (((k * CCadj) \div (10 * SC)) * Et0) \div SC
        Part(v) == IF CC < CCxW /\ CCxW > 10 /\ CC > 10
                   THEN Scale(v, Exp((Cr.a_Tr * Ln((CC * SC) \div CCxW)) \div SC))
                   ELSE v
    IN  Only({ Part(Full(k)) : k \in { Kcb } })

\* transpiration(Soil_Profile, Soil_nComp, Soil_zTop, Crop, IrrMngt_IrrMethod,
\* IrrMngt_NetIrrSMT, InitCond, Et0, CO2, GrowingSeason, GDD):
\* [ok, TrAct, TrPot_NS, TrPot0, Cond, IrrNet], with the root-zone demand
\* before (Asked) and after (TrPot) the stress coefficient, the compartments'
\* sinks (Sinks) and whether net irrigation refilled the root zone (Refilled);
\* undef is what p_up_sto holds when Crop.ETadj is not 1 and nothing assigns it
transpiration(p, nC, zTop, Cr, IrrMethod, NetIrrSMT, I, Et0, CO2, GrowingSeason, GDD, undef) ==
    LET DAPadj    == I.DAP - I.DelayedCDs
        rootdepth == RoundTo(Max(I.Zroot, Cr.Zmin), 10)
        comp_sto  == Min(Cardinality({i \in 1 .. nC : p.dzsum[i] < rootdepth}) + 1, nC)
        RootFact(ii) == IF p.dzsum[ii] > rootdepth
                        THEN SC - ((p.dzsum[ii] - rootdepth) * SC) \div p.dz[ii] ELSE SC
        SxBotAt(ii) == IF ii = 0 THEN Cr.SxTop
                       ELSE IF p.dzsum[ii] <= rootdepth
                       THEN (Cr.SxBot * I.rCor) \div SC
                              + ((Cr.SxTop - (Cr.SxBot * I.rCor) \div SC)
                                   * (rootdepth - p.dzsum[ii])) \div rootdepth
                       ELSE (Cr.SxBot * I.rCor) \div SC
        SxComp(ii) == IF IrrMethod = 4 THEN (Cr.SxTop + Cr.SxBot) \div 2
                      ELSE (SxBotAt(ii - 1) + SxBotAt(ii)) \div 2
        \* 0.02 / (0.02 + 0.98 * exp(-fshapeb * GDDrel)) - 0.02 * (1 - GDDrel),
        \* fshapeb = log(2401)
        Cold(GDDrel) ==
            Only({ (E * 100) \div ((E + 49 * SC) \div 10) - (20 * (SC - GDDrel)) \div SC :
                   E \in { Exp((7784 * GDDrel) \div SC) } })
        KsCold == IF Cr.TrColdStress = 0 \/ GDD >= Cr.GDD_up THEN SC
                  ELSE IF GDD <= Cr.GDD_lo THEN 0
                  ELSE Cold(((GDD - Cr.GDD_lo) * SC) \div (Cr.GDD_up - Cr.GDD_lo))
        Aged == [I EXCEPT !.AgeDays_NS = IF DAPadj > Cr.MaxCanopyCD
                                         THEN DAPadj - Cr.MaxCanopyCD ELSE @,
                          !.AgeDays = IF DAPadj > Cr.MaxCanopyCD
                                      THEN DAPadj - Cr.MaxCanopyCD ELSE @]
        \* the stomatal coefficient of a compartment
        KsComp(th, comp) ==
            LET fc == 100 * p.th_fc[comp]
                wp == 100 * p.th_wp[comp]
                p_up_sto ==
                    IF Cr.ETadj = 1
                    THEN Cr.p_up[2] + (((4 * (5 * SC - Et0)) \div 100)
                                        * ((Ln(10 * SC - 9 * Cr.p_up[2]) * SC) \div Ln10)) \div SC
                    ELSE undef
                pRel == ((((fc - th) * SC) \div (fc - wp) - Cr.p_up[2]) * SC)
                           \div (Cr.p_lo[2] - Cr.p_up[2])
            IN  IF th >= fc - ((fc - wp) * p_up_sto) \div SC THEN SC
                ELSE IF th > wp
                THEN IF pRel <= 0 THEN SC
                     ELSE IF pRel >= SC THEN 0
                     ELSE Min(Max(WsKs(pRel, Cr.fshape_w[2]), 0), SC)
                ELSE 0
        \* the aeration coefficient of a compartment and its days of stress
        AerComp(th, days, DaySubmerged, comp) ==
            LET ths == 100 * p.th_s[comp]
                d1  == Min(days + 1, Cr.LagAer)
                fAer == IF days + 1 >= Cr.LagAer THEN 0 ELSE 1
                wet == Max(((ths - th) * SC) \div (Cr.Aer * SC), 0)
            IN  IF DaySubmerged >= Cr.LagAer THEN [ok |-> TRUE, Aer |-> 0, days |-> days]
                ELSE IF th > ths - Cr.Aer * SC
                THEN IF fAer + d1 - 1 = 0 THEN [ok |-> FALSE, why |-> "ZeroDivisionError"]
                     ELSE [ok |-> TRUE, days |-> d1,
                           Aer |-> (fAer * SC + (d1 - 1) * wet) \div (fAer + d1 - 1)]
                ELSE [ok |-> TRUE, Aer |-> SC, days |-> 0]
        \* root extraction, compartment after compartment from the surface
        Extract(C, TrPot) ==
            LET RECURSIVE Pull(_, _)
                Taken(st, c, a, want) ==
                    LET asked == (st.ToExtract * 100) \div p.dz[c]
                        s1    == Min(want, asked)
                        Sink  == IF st.th[c] - s1 < 100 * p.th_dry[c]
                                 THEN Max(st.th[c] - 100 * p.th_dry[c], 0) ELSE s1
                    IN  [ok |-> TRUE,
                         th |-> [st.th EXCEPT ![c] = @ - Sink],
                         days |-> [st.days EXCEPT ![c] = a.days],
                         ToExtract |-> st.ToExtract - (Sink * p.dz[c]) \div 100,
                         TrAct |-> st.TrAct + (Sink * p.dz[c]) \div 100,
                         Sinks |-> Append(st.Sinks,
                                          [Sink |-> Sink, want |-> want, Aer |-> a.Aer,
                                           RootFact |-> RootFact(c)])]
                Sunk(st, c, a) ==
                    IF ~a.ok THEN a
                    ELSE Only({ Pull(Taken(st, c, a, want), c) :
                                want \in { (((TrSink(IrrMethod, KsComp(st.th[c], c), a.Aer)
                                               * SxComp(c)) \div SC) * RootFact(c)) \div SC } })
                Pull(st, comp) ==
                    IF ~st.ok \/ ~(st.ToExtract > 0 /\ comp < comp_sto) THEN st
                    ELSE Only({ Sunk(st, comp + 1, a) :
                                a \in { AerComp(st.th[comp + 1], st.days[comp + 1],
                                                C.DaySubmerged, comp + 1) } })
            IN  Pull([ok |-> TRUE, th |-> C.th, days |-> C.AerDaysComp,
                      ToExtract |-> TrPot, TrAct |-> 0, Sinks |-> <<>>], 0)
        \* net irrigation: the compartments of the root zone set to the
        \* threshold of their layer
        NetIrr(C, TrPot) ==
            LET RECURSIVE Fill(_, _, _, _)
                Fill(st, ii, prelayer, thCrit0) ==
                    IF ii > comp_sto THEN st
                    ELSE LET fresh  == p.Layer[ii] > prelayer
                             thCrit == IF fresh
                                       THEN 100 * p.th_wp[ii]
                                              + NetIrrSMT * (p.th_fc[ii] - p.th_wp[ii])
                                       ELSE thCrit0
                             dth    == (RootFact(ii) * (thCrit - st.th[ii])) \div SC
                         IN  Fill([th |-> [st.th EXCEPT ![ii] = @ + dth],
                                   IrrNet |-> st.IrrNet + (dth * p.dz[ii]) \div 100],
                                  ii + 1, IF fresh THEN p.Layer[ii] ELSE prelayer, thCrit)
                Watered(rz) ==
                    IF ~rz.ok THEN rz
                    ELSE LET thCrit == rz.thRZ.WP
                                         + (NetIrrSMT * (rz.thRZ.FC - rz.thRZ.WP)) \div 100
                             D == [C EXCEPT !.Depletion = rz.Dr.Rz \div 100,
                                            !.TAW = rz.TAW.Rz \div 100]
                         IN  IF rz.thRZ.Act < thCrit
                             THEN Only({ [ok |-> TRUE, IrrNet |-> f.IrrNet, Refilled |-> TRUE,
                                          Cond |-> [D EXCEPT !.th = f.th,
                                                             !.IrrNetCum = @ + f.IrrNet]] :
                                         f \in { Fill([th |-> C.th, IrrNet |-> 0], 1, 0, thCrit) } })
                             ELSE [ok |-> TRUE, IrrNet |-> 0, Refilled |-> FALSE, Cond |-> D]
            IN  IF IrrMethod = 4 /\ TrPot > 0
                THEN Only({ Watered(rz) :
                            rz \in { root_zone_water(p, C.Zroot, C.th, zTop, Cr.Zmin, Cr.Aer, 0) } })
                ELSE [ok |-> TRUE, IrrNet |-> 0, Refilled |-> FALSE,
                      Cond |-> IF IrrMethod = 4 THEN C ELSE [C EXCEPT !.IrrNetCum = 0]]
        \* transpiration met from surface storage while the field is submerged
        Submerged(C, TrPot0) ==
            IF C.SurfaceStorage > 0 /\ C.DaySubmerged < Cr.LagAer
            THEN LET days == C.DaySubmerged + 1
                     want == ((((Cr.LagAer - days) * SC) \div Cr.LagAer) * TrPot0) \div SC
                     met  == C.SurfaceStorage > want
                 IN  [TrAct0 |-> IF met THEN want ELSE 0,
                      TrPot  |-> IF met THEN 0 ELSE want,
                      Cond   |-> [C EXCEPT !.DaySubmerged = days,
                                           !.AerDaysComp = [ii \in 1 .. nC |->
                                                               Min(C.AerDaysComp[ii] + 1, Cr.LagAer)],
                                           !.SurfaceStorage = IF met THEN @ - want ELSE @]]
            ELSE [TrAct0 |-> 0, TrPot |-> TrPot0, Cond |-> C]
        Closing(C, TrAct, TrPot0) ==
            [C EXCEPT !.CC = IF C.CC - C.CCprev > 50 /\ TrAct = 0 THEN C.CCprev ELSE @,
                      !.TrRatio = IF TrPot0 > 0 /\ TrAct < TrPot0
                                  THEN Max((TrAct * SC) \div TrPot0, 0) ELSE SC,
                      !.Tpot = TrPot0]
        Ended(sub, TrPot0, TrPot_NS, TrPot, st, n) ==
            IF ~n.ok THEN n
            ELSE [ok |-> TRUE, TrAct |-> st.TrAct + sub.TrAct0, TrPot_NS |-> TrPot_NS,
                  TrPot0 |-> TrPot0, IrrNet |-> n.IrrNet,
                  Cond |-> Closing(n.Cond, st.TrAct + sub.TrAct0, TrPot0),
                  Asked |-> sub.TrPot, TrPot |-> TrPot, Sinks |-> st.Sinks,
                  Refilled |-> n.Refilled, Extracted |-> st.th,
                  \* p_up_sto is assigned under Crop.ETadj == 1 only and read by
                  \* every pass of the extraction loop
                  Unassigned |-> Cr.ETadj # 1 /\ Len(st.Sinks) > 0]
        Drawn(sub, TrPot0, TrPot_NS, Ksa, TrPot, st) ==
            IF ~st.ok THEN st
            ELSE Only({ Ended(sub, TrPot0, TrPot_NS, TrPot, st, n) :
                        n \in { NetIrr([sub.Cond EXCEPT !.th = st.th, !.AerDaysComp = st.days,
                                                        !.AerDays = Ksa.AerDays],
                                       TrPot) } })
        Stressed(sub, TrPot0, TrPot_NS, Ksw, Ksa) ==
            IF ~Ksa.ok THEN Ksa
            ELSE Only({ Only({ Drawn(sub, TrPot0, TrPot_NS, Ksa, TrPot, st) :
                               st \in { Extract(sub.Cond, TrPot) } }) :
                        TrPot \in { IF IrrMethod # 4
                                    THEN (sub.TrPot * Min(Ksw.StoLin, Ksa.Ksa)) \div SC
                                    ELSE sub.TrPot } })
        Rooted(sub, TrPot0, TrPot_NS, rz) ==
            IF ~rz.ok THEN rz
            ELSE IF rz.TAW.Rz \div 100 = 0 \/ rz.TAW.Zt \div 100 = 0
            THEN [ok |-> FALSE, why |-> "ZeroDivisionError"]
            ELSE LET Pick(Dr, TAW) ==
                         Only({ Stressed(sub, TrPot0, TrPot_NS, Ksw, Ksa) :
                                Ksw \in { water_stress(Cr, sub.Cond, Dr, TAW, Et0, TRUE) },
                                Ksa \in { aeration_stress(sub.Cond.AerDays, Cr.LagAer, rz.thRZ) } })
                 IN  IF ((rz.Dr.Rz \div 100) * SC) \div (rz.TAW.Rz \div 100)
                           <= ((rz.Dr.Zt \div 100) * SC) \div (rz.TAW.Zt \div 100)
                     THEN Pick(rz.Dr.Rz \div 100, rz.TAW.Rz \div 100)
                     ELSE Pick(rz.Dr.Zt \div 100, rz.TAW.Zt \div 100)
        Potential(TrPot0, TrPot_NS) ==
            Only({ Only({ Rooted(sub, TrPot0, TrPot_NS, rz) :
                          rz \in { root_zone_water(p, sub.Cond.Zroot, sub.Cond.th, zTop,
                                                   Cr.Zmin, Cr.Aer, 0) } }) :
                   sub \in { Submerged(Aged, TrPot0) } })
    IN  IF ~GrowingSeason
        THEN [ok |-> TRUE, TrAct |-> 0, TrPot_NS |-> 0, TrPot0 |-> 0, IrrNet |-> 0,
              Cond |-> [I EXCEPT !.IrrNetCum = 0, !.Tpot = 0],
              Asked |-> 0, TrPot |-> 0,
              Sinks |-> <<>>, Refilled |-> FALSE, Extracted |-> I.th,
              Unassigned |-> FALSE]
        ELSE IF CO2.CurrentConc > CO2.RefConc /\ CO2.RefConc = 550
        THEN [ok |-> FALSE, why |-> "ZeroDivisionError"]
        ELSE Only({ Potential((TrPotOf(Cr, CO2, Et0, Aged.AgeDays, I.CCadj, I.CC, I.CCxW) * k)
                                 \div SC,
                              (TrPotOf(Cr, CO2, Et0, Aged.AgeDays_NS, I.CCadj_NS, I.CC_NS,
                                       I.CCxW_NS) * k) \div SC) :
                    k \in { KsCold } })

----------------------------------------------------------------------------
(* growth_stage and biomass_accumulation                                   *)

\* a growth stage that is left as it is outside the growing season
growth_stage_kept(Cr, I, GrowingSeason) == I

\* growth_stage(Crop, InitCond, GrowingSeason)
growth_stage(Cr, I, GrowingSeason) ==
    LET tAdj == IF Cr.CalendarType = 1 THEN I.DAP - I.DelayedCDs
                ELSE I.GDDcum - I.DelayedGDDs
    IN  IF ~GrowingSeason THEN [I EXCEPT !.GrowthStage = 0]
        ELSE [I EXCEPT !.GrowthStage = IF tAdj <= Cr.Canopy10Pct THEN 1
                                       ELSE IF tAdj <= Cr.MaxCanopy THEN 2
                                       ELSE IF tAdj <= Cr.Senescence THEN 3
                                       ELSE 4]

\* biomass_accumulation(Crop, InitCond, Tr, TrPot, Et0, GrowingSeason):
\* [ok, Cond]; biomass and water productivity in 1/SC g/m2.  A float division
\* by zero raises, so that dB is a number where np.isnan tests it
biomass_accumulation(Cr, I, Tr, TrPot, Et0, GrowingSeason) ==
    LET HIt == I.DAP - I.DelayedCDs - Cr.HIstartCD - 1
        Lagged == Cr.CropType \in {2, 3} /\ I.HIref > 0
        \* fswitch in 1/SC
        fswitch == IF Cr.Determinant = 1 THEN 10 * I.PctLagPhase
                   ELSE IF 3 * HIt < Cr.YldFormCD THEN (3 * HIt * SC) \div Cr.YldFormCD
                   ELSE SC
        WPadj == ((IF Lagged
                   THEN (Cr.WP * (SC - ((100 - Cr.WPy) * fswitch) \div 100)) \div SC
                   ELSE Cr.WP) * Cr.fCO2) \div SC
        Grown(w) == [ok |-> TRUE,
                     Cond |-> [I EXCEPT !.B = @ + (w * ((Tr * SC) \div Et0)) \div SC,
                                        !.B_NS = @ + (w * ((TrPot * SC) \div Et0)) \div SC]]
    IN  IF ~GrowingSeason THEN [ok |-> TRUE, Cond |-> [I EXCEPT !.B = 0, !.B_NS = 0]]
        ELSE IF Lagged /\ Cr.Determinant # 1 /\ 3 * HIt < Cr.YldFormCD /\ Cr.YldFormCD = 0
        THEN [ok |-> FALSE, why |-> "ZeroDivisionError"]
        ELSE IF Et0 = 0 THEN [ok |-> FALSE, why |-> "ZeroDivisionError"]
        ELSE Only({ Grown(w) : w \in { WPadj } })

----------------------------------------------------------------------------
(* State shared by the specifications                                      *)

\* longest sequence of calls explored
MaxCalls == 3

NoParams == [none |-> TRUE]

\* the condition of a field at rest: bare soil at field capacity
CondDefault(p) ==
    [ th |-> p.th_fc, th_fc_Adj |-> p.th_fc_Adj, SurfaceStorage |-> 0,
      zGW |-> 0 - 999 * SC, WTinSoil |-> FALSE ]

RetNone == [ op |-> "none" ]

----------------------------------------------------------------------------
(* Water balance: any sequence of water-balance calls on one field         *)

\* water contents the sequence may start with: the whole profile air dry,
\* at field capacity, or saturated, or wet over dry
StartProfiles(p) ==
    { p.th_dry, p.th_fc, p.th_s,
      [i \in Comps |-> IF i = 1 THEN p.th_s[i] ELSE p.th_dry[i]] }

\* field management: no bunds, bunds of 50 mm, bunds too low to count
FieldMngtsWB == { [Bunds |-> FALSE, zBund |-> 0], [Bunds |-> TRUE, zBund |-> 50],
                  [Bunds |-> TRUE, zBund |-> 0] }

InitWB ==
    /\ prof \in Profiles
    /\ \E wt \in {0, 1} : Soil = [WaterTable |-> wt]
    /\ Crop = NoParams
    /\ IrrMngt = NoParams
    /\ FieldMngt \in FieldMngtsWB
    /\ \E th \in StartProfiles(prof) : NewCond = [CondDefault(prof) EXCEPT !.th = th]
    /\ ret = RetNone
    /\ nCalls = 0

Drainage ==
    /\ nCalls < MaxCalls
    /\ \E r \in { drainage(prof, NewCond.th, NewCond.th_fc_Adj) } :
           /\ NewCond' = [NewCond EXCEPT !.th = r.thnew]
           /\ ret' = [op |-> "drainage", th0 |-> NewCond.th, DeepPerc |-> r.DeepPerc,
                      FluxOut |-> r.FluxOut, lost |-> r.lost]
    /\ nCalls' = nCalls + 1
    /\ UNCHANGED <<prof, Soil, Crop, IrrMngt, FieldMngt>>

\* water-table depths (mm) the driver may report; negative: no table in range
GwDepths == { 0 - 999 * SC, 120, 250, 12 * 100, 3 * SC }

CheckGroundwaterTable ==
    /\ nCalls < MaxCalls
    /\ \E zGW \in GwDepths :
          /\ NewCond' = check_groundwater_table(prof, NewCond, Soil.WaterTable, zGW)
          /\ ret' = [op |-> "check_groundwater_table", th0 |-> NewCond.th, zGW |-> zGW]
    /\ prof' = [prof EXCEPT !.th_fc_Adj = NewCond'.th_fc_Adj]
    /\ nCalls' = nCalls + 1
    /\ UNCHANGED <<Soil, Crop, IrrMngt, FieldMngt>>

GroundwaterInflow ==
    /\ nCalls < MaxCalls
    /\ \E r \in { groundwater_inflow(prof, NewCond) } :
           /\ NewCond' = [NewCond EXCEPT !.th = r.th]
           /\ ret' = [op |-> "groundwater_inflow", th0 |-> NewCond.th, GwIn |-> r.GwIn]
    /\ nCalls' = nCalls + 1
    /\ UNCHANGED <<prof, Soil, Crop, IrrMngt, FieldMngt>>

\* the flux out of each compartment and the deep percolation the day has
\* seen so far: those of the drainage call just made, or none
DayFluxOut == IF ret.op = "drainage" THEN ret.FluxOut ELSE [i \in Comps |-> 0]
DayDeepPerc == IF ret.op = "drainage" THEN ret.DeepPerc ELSE 0

\* values an unassigned ToStore or RunoffIni may hold (1/1000 mm)
UndefinedDepths == { 0, 5 * SC }

\* water arriving at the surface (1/1000 mm): Infl, Irr, GrowingSeason
InflCases == { <<0, 0, TRUE>>, <<60 * SC, 0, TRUE>>, <<0, 10 * SC, TRUE>>,
               <<60 * SC, 10 * SC, FALSE>> }

Infiltration ==
    /\ nCalls < MaxCalls
    /\ \E c \in InflCases :
          LET Infl1 == InflWithIrr(c[1], c[2], 90, c[3])
              sf0   == InflSurface(prof, NewCond, FieldMngt, Infl1)
          IN  \E raises \in (IF sf0.defined THEN {FALSE} ELSE BOOLEAN),
                 u1 \in (IF sf0.defined THEN {sf0.ToStore} ELSE UndefinedDepths),
                 u2 \in (IF sf0.defined THEN {sf0.RunoffIni} ELSE UndefinedDepths) :
                 \E r \in { InflBody(prof, NewCond, FieldMngt, Infl1,
                                     [sf0 EXCEPT !.ToStore = u1, !.RunoffIni = u2],
                                     DayFluxOut, DayDeepPerc, 0) } :
                     IF raises
                     THEN /\ NewCond' = NewCond
                          /\ ret' = [op |-> "failed", call |-> "infiltration"]
                          /\ nCalls' = MaxCalls
                     ELSE /\ NewCond' = [NewCond EXCEPT !.th = r.th,
                                                        !.SurfaceStorage = r.SurfaceStorage]
                          /\ ret' = [op |-> "infiltration", th0 |-> NewCond.th,
                                     S0 |-> NewCond.SurfaceStorage, In |-> Infl1,
                                     defined |-> sf0.defined, DeepPerc0 |-> DayDeepPerc,
                                     DeepPerc |-> r.DeepPerc, RunoffTot |-> r.RunoffTot,
                                     Infl |-> r.Infl, FluxOut |-> r.FluxOut]
                          /\ nCalls' = nCalls + 1
    /\ UNCHANGED <<prof, Soil, Crop, IrrMngt, FieldMngt>>

CapillaryRise ==
    /\ nCalls < MaxCalls
    /\ \E r \in { capillary_rise(prof, NewCond, DayFluxOut, Soil.WaterTable) } :
           /\ NewCond' = [NewCond EXCEPT !.th = r.th]
           /\ ret' = [op |-> "capillary_rise", th0 |-> NewCond.th, CrTot |-> r.CrTot,
                      FluxOut |-> DayFluxOut]
    /\ nCalls' = nCalls + 1
    /\ UNCHANGED <<prof, Soil, Crop, IrrMngt, FieldMngt>>

NextWB ==
    \/ Drainage
    \/ Infiltration
    \/ CapillaryRise
    \/ CheckGroundwaterTable
    \/ GroundwaterInflow

SpecWB == InitWB /\ [][NextWB]_vars

----------------------------------------------------------------------------
(* Properties of the water balance                                         *)

WithinDryAndSaturation(th) ==
    \A i \in Comps : prof.th_dry[i] <= th[i] /\ th[i] <= prof.th_s[i]

\* C1: after each water-balance operation (drainage, infiltration,
\* capillary_rise, check_groundwater_table, groundwater_inflow), in any
\* sequence, on a profile that started with th_dry <= th <= th_s, every
\* compartment still has th_dry <= th <= th_s.
C1_WaterContentWithinBounds == WithinDryAndSaturation(NewCond.th)

\* water the last drainage call removed from storage (1/1000 mm)
DrainageRemoved ==
    Sum([i \in Comps |-> (ret.th0[i] - NewCond.th[i]) * prof.dz[i]])

\* C2: drainage conserves mass: for a profile that starts at or below
\* saturation, the water removed from storage, the sum over compartments of
\* (th_init - thnew) * 1000 * dz, equals the returned DeepPerc, also when
\* excess is pushed back up as far as the top compartment.
C2_DrainageConservesMass ==
    (ret.op = "drainage" /\ \A i \in Comps : ret.th0[i] <= prof.th_s[i])
        => (DrainageRemoved = ret.DeepPerc /\ ret.lost = 0)

\* a drainage with deep percolation in which pushed-back water reached the
\* top compartment: it holds more than its own drainage would leave it
C2_Witness ==
    /\ ret.op = "drainage"
    /\ ret.DeepPerc > 0
    /\ \A i \in Comps : ret.th0[i] <= prof.th_s[i]
    /\ NewCond.th_fc_Adj[1] >= prof.th_fc[1]
    /\ NewCond.th[1] > ret.th0[1] - DrainAbility(prof, 1, ret.th0[1], NewCond.th_fc_Adj[1])

\* C10: after check_groundwater_table with a water table enabled, every
\* compartment whose mid-point is at or below the table is saturated, and
\* the stored adjusted field capacity of every compartment satisfies
\* th_fc <= th_fc_Adj <= th_s, the bottom compartment, compartments far
\* above the table and the case zGW < 0 included.
C10_AdjustedFieldCapacityBounded ==
    (ret.op = "check_groundwater_table" /\ Soil.WaterTable = 1)
        => /\ \A i \in Comps : (ret.zGW >= 0 /\ prof.zMid[i] >= ret.zGW)
                                  => NewCond.th[i] = prof.th_s[i]
           /\ \A i \in Comps : /\ prof.th_fc[i] <= NewCond.th_fc_Adj[i]
                               /\ NewCond.th_fc_Adj[i] <= prof.th_s[i]

----------------------------------------------------------------------------
(* Root zone water: root_zone_water on a field whose soil drains           *)

InitRZW ==
    /\ prof \in Profiles
    /\ \E zTop \in {50, 99, 100, 150} : Soil = [zTop |-> zTop]
    /\ \E Zmin \in {98, 300} : Crop = [Zmin |-> Zmin, Aer |-> 5]
    /\ IrrMngt = NoParams
    /\ FieldMngt = NoParams
    /\ \E th \in StartProfiles(prof) : NewCond = [CondDefault(prof) EXCEPT !.th = th]
    /\ ret = RetNone
    /\ nCalls = 0

\* one call; e stands for the digits of th below the resolution of the state
RootZoneWater ==
    /\ nCalls < MaxCalls
    /\ \E Zroot \in {50, 104, 250, 400}, e \in {0, 45}, undef \in 0 .. nComp :
          \E r \in { root_zone_water(prof, Zroot, [i \in Comps |-> 100 * NewCond.th[i] + e],
                                     Soil.zTop, Crop.Zmin, Crop.Aer, undef) } :
             /\ (undef > 0 => (r.ok /\ r.rootdepth > prof.dzsum[nComp]))
             /\ ret' = [op |-> "root_zone_water", Zroot |-> Zroot, e |-> e, out |-> r]
    /\ nCalls' = nCalls + 1
    /\ UNCHANGED <<prof, Soil, Crop, IrrMngt, FieldMngt, NewCond>>

NextRZW == RootZoneWater \/ Drainage

SpecRZW == InitRZW /\ [][NextRZW]_vars

\* the call returned
RzwReturned == ret.op = "root_zone_water" /\ ret.out.ok

\* what root_zone_water guarantees whatever the depths
RzwBounds(o) ==
    /\ o.WrAct >= 0
    /\ o.TAW.Rz = Max(o.WrFC - o.WrWP, 0)
    /\ o.Dr.Rz = Min(o.WrFC - o.WrAct, o.TAW.Rz)
    /\ o.Dr.Rz <= o.TAW.Rz
    /\ o.Dr.Zt <= o.TAW.Zt

----------------------------------------------------------------------------
(* Irrigation: the daily call of irrigation over a season                  *)

\* days of the season explored
MaxDAP == 3

InitIrr ==
    /\ prof \in Profiles
    /\ Soil = [zTop |-> 100]
    /\ Crop = [Zmin |-> 300, Aer |-> 5]
    /\ \E m \in 0 .. 5, season \in {40 * SC, 10 * SC2}, depth \in {10 * SC, 30 * SC} :
          IrrMngt = [IrrMethod |-> m, SMT |-> <<80, 60, 70, 30>>, AppEff |-> 90,
                     MaxIrr |-> 25 * SC, MaxIrrSeason |-> season, IrrInterval |-> 2,
                     Schedule |-> [d \in 1 .. MaxDAP + 1 |-> IF d = 2 THEN 0 ELSE 30 * SC],
                     depth |-> depth]
    /\ FieldMngt = NoParams
    /\ \E th \in StartProfiles(prof) :
          NewCond = [th |-> th, th_fc_Adj |-> prof.th_fc_Adj, Zroot |-> 300,
                     Tpot |-> 3 * SC, Epot |-> 2 * SC, DAP |-> 0, TimeStepCounter |-> 0,
                     GrowthStage |-> 2, Depletion |-> 0, TAW |-> 0, IrrCum |-> 0]
    /\ ret = RetNone
    /\ nCalls = 0

\* one day: the driver has advanced the day counters, then calls irrigation
Irrigation ==
    /\ NewCond.DAP < MaxDAP
    /\ \E GrowingSeason \in BOOLEAN, Rain \in {0, 20 * SC} :
          \E r \in { irrigation([NewCond EXCEPT !.DAP = @ + 1], IrrMngt, Crop, prof,
                                Soil.zTop, GrowingSeason, Rain, 0) } :
             /\ r.ok
             /\ NewCond' = [r.Cond EXCEPT !.TimeStepCounter = @ + 1]
             /\ ret' = [op |-> "irrigation", GrowingSeason |-> GrowingSeason,
                        IrrCum0 |-> NewCond.IrrCum, Irr |-> r.Irr]
    /\ nCalls' = nCalls + 1
    /\ UNCHANGED <<prof, Soil, Crop, IrrMngt, FieldMngt>>

NextIrr == Irrigation

SpecIrr == InitIrr /\ [][NextIrr]_vars

\* C4: irrigation returns 0 <= Irr <= MaxIrr for the threshold (1),
\* fixed-interval (2), scheduled (3) and fixed-depth (5) policies, Irr = 0 for
\* the policies none (0) and net irrigation (4) and on every day outside the
\* growing season; IrrCum grows by exactly Irr on each growing-season call,
\* never exceeds MaxIrrSeason, and is reset to 0 outside the growing season.
C4_IrrigationCapped ==
    ret.op = "irrigation" =>
        /\ 0 <= ret.Irr /\ ret.Irr <= IrrMngt.MaxIrr
        /\ (IrrMngt.IrrMethod \in {0, 4} \/ ~ret.GrowingSeason) => ret.Irr = 0
        /\ ret.GrowingSeason => NewCond.IrrCum = ret.IrrCum0 + ret.Irr
        /\ ~ret.GrowingSeason => NewCond.IrrCum = 0
        /\ NewCond.IrrCum <= IrrMngt.MaxIrrSeason

\* a growing-season day on which the seasonal limit cuts the irrigation short
C4_Witness ==
    /\ ret.op = "irrigation"
    /\ ret.GrowingSeason
    /\ ret.IrrCum0 > 0
    /\ 0 < ret.Irr /\ ret.Irr < IrrMngt.MaxIrr
    /\ NewCond.IrrCum = IrrMngt.MaxIrrSeason

----------------------------------------------------------------------------
(* Water stress: water_stress for the depletions of a season               *)

\* depletion and total available water (1/SC mm) of the days explored
DrTAW ==
    { <<0, 0>> } \cup
    { <<d * SC, 30 * SC>> : d \in {0 - 5, 0, 3, 5, 12, 20, 21, 25, 30} }

InitWS ==
    /\ prof \in Profiles
    /\ Soil = NoParams
    /\ \E ETadj \in {0, 1}, fs \in { <<3 * SC, 6 * SC, 2700>>, <<0 - 2 * SC, 2500, 500>> } :
          Crop = [p_up |-> <<140, 690, 690, 800>>, p_lo |-> <<720, SC, SC, SC>>,
                  ETadj |-> ETadj, beta |-> 12, fshape_w |-> fs]
    /\ IrrMngt = NoParams
    /\ FieldMngt = NoParams
    /\ NewCond = [tEarlySen |-> 0]
    /\ ret = RetNone
    /\ nCalls = 0

\* one call, which leaves nothing behind for a later one: the canopy may have
\* started to senesce early, then water_stress
WaterStress ==
    /\ ret = RetNone
    /\ \E d \in DrTAW, Et0 \in {2 * SC, 5 * SC, 9 * SC}, beta \in BOOLEAN, sen \in {0, 1} :
          /\ NewCond' = [NewCond EXCEPT !.tEarlySen = Max(@, sen)]
          /\ ret' = [op |-> "water_stress", Dr |-> d[1], TAW |-> d[2], Et0 |-> Et0,
                     beta |-> beta,
                     Ksw |-> water_stress(Crop, NewCond', d[1], d[2], Et0, beta)]
    /\ nCalls' = nCalls + 1
    /\ UNCHANGED <<prof, Soil, Crop, IrrMngt, FieldMngt>>

NextWS == WaterStress

SpecWS == InitWS /\ [][NextWS]_vars

\* the coefficients of a result, in the order Exp, Sto, Sen, Pol, StoLin
WsCoefs(k) == <<k.Exp, k.Sto, k.Sen, k.Pol, k.StoLin>>
\* the stress type each coefficient is computed from
WsTypeOf == <<1, 2, 3, 4, 2>>

\* bounds and end points of the relative depletions and the coefficients, and
\* coefficients non-increasing in Dr
WsBounds ==
    LET k == ret.Ksw IN
    /\ \A ii \in 1 .. 4 : 0 <= k.Drel[ii] /\ k.Drel[ii] <= SC
    /\ \A ii \in 1 .. 4 : ret.Dr * SC <= k.p_up[ii] * ret.TAW => k.Drel[ii] = 0
    /\ \A c \in 1 .. 5 :
          /\ 0 <= WsCoefs(k)[c] /\ WsCoefs(k)[c] <= SC
          /\ k.Drel[WsTypeOf[c]] = 0 => WsCoefs(k)[c] = SC
          /\ k.Drel[WsTypeOf[c]] = SC => WsCoefs(k)[c] = 0
    /\ \A d \in DrTAW :
          (d[2] = ret.TAW /\ d[1] <= ret.Dr)
             => \A c \in 1 .. 5 :
                   WsCoefs(water_stress(Crop, NewCond, d[1], d[2], ret.Et0, ret.beta))[c]
                      >= WsCoefs(k)[c]

----------------------------------------------------------------------------
(* Germination: the daily call of germination after sowing                 *)

InitGerm ==
    /\ prof \in Profiles
    /\ Soil = [zGerm |-> 250]
    /\ \E pm \in BOOLEAN : Crop = [GermThr |-> 200, PlantMethod |-> pm]
    /\ IrrMngt = NoParams
    /\ FieldMngt = NoParams
    /\ NewCond = [th |-> prof.th_dry, Germination |-> FALSE, ProtectedSeed |-> FALSE,
                  DelayedCDs |-> 0, DelayedGDDs |-> 0]
    /\ ret = RetNone
    /\ nCalls = 0

\* one day: the water balance has left the water contents th, then germination
Germination ==
    /\ nCalls < MaxCalls + 1
    /\ \E th \in StartProfiles(prof), GDD \in {0, 8 * SC}, GrowingSeason \in BOOLEAN :
          \E r \in { germination([NewCond EXCEPT !.th = th], Soil.zGerm, prof, Crop.GermThr,
                                 Crop.PlantMethod, GDD, GrowingSeason) } :
             /\ r.ok
             /\ NewCond' = r.Cond
             /\ ret' = [op |-> "germination", GrowingSeason |-> GrowingSeason, GDD |-> GDD,
                        Germination0 |-> NewCond.Germination]
    /\ nCalls' = nCalls + 1
    /\ UNCHANGED <<prof, Soil, Crop, IrrMngt, FieldMngt>>

NextGerm == Germination

SpecGerm == InitGerm /\ [][NextGerm]_vars

\* C7: over consecutive growing-season days germination is a latch: once
\* Germination is true it stays true on every later growing-season day and
\* the delay counters no longer change; a growing-season day that ends
\* without germination adds 1 to DelayedCDs and the day's GDD to DelayedGDDs
\* and leaves ProtectedSeed false.
C7_GerminationLatch ==
    [][ (ret'.op = "germination" /\ ret'.GrowingSeason) =>
          /\ NewCond.Germination =>
                /\ NewCond'.Germination
                /\ NewCond'.DelayedCDs = NewCond.DelayedCDs
                /\ NewCond'.DelayedGDDs = NewCond.DelayedGDDs
          /\ ~NewCond'.Germination =>
                /\ NewCond'.DelayedCDs = NewCond.DelayedCDs + 1
                /\ NewCond'.DelayedGDDs = NewCond.DelayedGDDs + ret'.GDD
                /\ ~NewCond'.ProtectedSeed ]_vars

\* a growing-season day of a crop that germinated earlier, after dry days
C7_Witness ==
    /\ ret.op = "germination"
    /\ ret.GrowingSeason
    /\ ret.Germination0
    /\ NewCond.Germination
    /\ NewCond.DelayedCDs >= 1
    /\ NewCond.DelayedGDDs > 0

----------------------------------------------------------------------------
(* Root development: daily root growth over a water table                  *)

InitRoot ==
    /\ prof \in Profiles
    /\ \E wt \in {0, 1} : Soil = [WaterTable |-> wt]
    /\ \E Zmin \in {100, 200} :
          Crop = [CalendarType |-> 1, Zmin |-> Zmin, Zmax |-> 290, PctZmin |-> 70,
                  Emergence |-> 1, MaxRooting |-> MaxDAP + 1, fshape_r |-> 1500,
                  fshape_ex |-> 0 - 6 * SC, p_up |-> <<140, 690, 690, 800>>,
                  fshape_w |-> <<3 * SC, 6 * SC, 2700>>, SxTop |-> 48, SxBot |-> 12]
    /\ IrrMngt = NoParams
    /\ FieldMngt = NoParams
    /\ \E th \in StartProfiles(prof) :
          NewCond = [th |-> th, th_fc_Adj |-> prof.th_fc_Adj, SurfaceStorage |-> 0,
                     zGW |-> 0 - 999 * SC, WTinSoil |-> FALSE,
                     DAP |-> 0, DelayedCDs |-> 0, GDDcum |-> 0, DelayedGDDs |-> 0,
                     Zroot |-> 0, rCor |-> SC, TrRatio |-> SC, Tpot |-> 3 * SC,
                     CC |-> 500, CC_NS |-> 500, Germination |-> TRUE]
    /\ ret = RetNone
    /\ nCalls = 0

\* one day: the driver has advanced DAP and set the transpiration ratio
RootDevelopment ==
    /\ NewCond.DAP < MaxDAP
    /\ \E TrRatio \in {SC, 600}, GrowingSeason \in BOOLEAN :
          \E r \in { root_development(Crop, prof,
                                      [NewCond EXCEPT !.DAP = @ + 1, !.TrRatio = TrRatio],
                                      0, GrowingSeason, Soil.WaterTable) } :
             /\ r.ok
             /\ NewCond' = r.Cond
             /\ ret' = [op |-> "root_development", GrowingSeason |-> GrowingSeason,
                        Zfree |-> IF GrowingSeason THEN r.Zfree ELSE 0]
    /\ UNCHANGED <<prof, Soil, Crop, IrrMngt, FieldMngt, nCalls>>

NextRoot == RootDevelopment \/ CheckGroundwaterTable

SpecRoot == InitRoot /\ [][NextRoot]_vars

\* a growing-season call with the water table present at positive depth
RootOverTable ==
    /\ ret.op = "root_development"
    /\ ret.GrowingSeason
    /\ Soil.WaterTable = 1
    /\ NewCond.zGW > 0

----------------------------------------------------------------------------
(* Canopy: canopy_cover day after day through one season                   *)

\* last day after planting the season is followed to
SeasonDays == 10

\* soil water the water balance may leave on a day: at wilting point, a fifth
\* of the way to field capacity, at field capacity
DayWater(p) ==
    { [i \in Comps |-> p.th_wp[i] + (k * (p.th_fc[i] - p.th_wp[i])) \div 10] : k \in {0, 2, 10} }

InitCC ==
    /\ prof = MkProfile(Loam, Pan)
    /\ Soil = [zTop |-> 100]
    /\ \E canopy \in { <<5, 8 * SC>>, <<50, 8 * SC>>, <<2 * SC, 9900>> },
          CDC \in {300, 2 * SC} :
          Crop = [CalendarType |-> 1, Zmin |-> 200, Aer |-> 5,
                  p_up |-> <<140, 690, 690, 800>>, p_lo |-> <<720, SC, SC, SC>>,
                  ETadj |-> 0, beta |-> 12, fshape_w |-> <<3 * SC, 6 * SC, 2700>>,
                  Emergence |-> 1, CanopyDevEnd |-> 5, Senescence |-> 7, Maturity |-> 9,
                  CC0 |-> canopy[1], CCx |-> canopy[2], CGC |-> 1500, CDC |-> CDC]
    /\ IrrMngt = NoParams
    /\ FieldMngt = NoParams
    /\ NewCond = [th |-> prof.th_fc, Zroot |-> 250, DAP |-> 0, DelayedCDs |-> 0,
                  GDDcum |-> 0, DelayedGDDs |-> 0,
                  CC |-> 0, CCprev |-> 0, CC_NS |-> 0, CCadj |-> 0, CCadj_NS |-> 0,
                  CCxAct |-> 0, CCxAct_NS |-> 0, CCxW |-> 0, CCxW_NS |-> 0,
                  CC0adj |-> Crop.CC0, CCxEarlySen |-> 0, tEarlySen |-> 0,
                  PrematSenes |-> FALSE, ProtectedSeed |-> TRUE, CropDead |-> FALSE]
    /\ ret = RetNone
    /\ nCalls = 0

\* one day: the day count has advanced and the water balance has left the
\* soil at th; the season, once over, stays over
CanopyCover ==
    /\ NewCond.DAP < SeasonDays
    /\ \E th \in DayWater(prof), GrowingSeason \in BOOLEAN :
          /\ (ret.op = "canopy_cover" /\ ~ret.GrowingSeason) => ~GrowingSeason
          /\ \E r \in { canopy_cover(Crop, prof, Soil.zTop,
                                     [NewCond EXCEPT !.DAP = @ + 1, !.th = th],
                                     0, 5 * SC, GrowingSeason) } :
                /\ r.ok
                /\ NewCond' = r.Cond
                /\ ret' = [op |-> "canopy_cover", GrowingSeason |-> GrowingSeason,
                           WasDead |-> NewCond.CropDead, tCCadj |-> r.tCCadj,
                           sen |-> r.sen]
    /\ UNCHANGED <<prof, Soil, Crop, IrrMngt, FieldMngt, nCalls>>

NextCC == CanopyCover

SpecCC == InitCC /\ [][NextCC]_vars

\* a growing-season call of canopy_cover
CcCalled == ret.op = "canopy_cover" /\ ret.GrowingSeason

\* the call went through a check for crop growth termination: canopy
\* development had ended, or the canopy senesced early, or was rewatered late
CcChecked ==
    \/ (ret.tCCadj > Crop.CanopyDevEnd /\ ret.tCCadj <= Crop.Maturity)
    \/ ret.sen \in {"stress", "rewatering"}

\* C8 (as stated): on any growing-season day at or after emergence on which
\* the actual cover is below 0.001, CropDead is true and CC is 0, in every
\* canopy phase; and no call of canopy_cover sets CropDead back to false.
C8_AsStated ==
    /\ (ret.op = "canopy_cover" /\ ret.WasDead) => NewCond.CropDead
    /\ (CcCalled /\ ret.tCCadj >= Crop.Emergence /\ NewCond.CC < 10)
          => (NewCond.CropDead /\ NewCond.CC = 0)

\* C8 (amended): no call of canopy_cover sets CropDead back to false; a crop
\* that was alive is declared dead, with CC 0, when its cover is below 0.001
\* on a growing-season day after canopy development has ended and up to
\* maturity, or on which the canopy senesces early or is rewatered late; and
\* it is declared dead on no other day.
C8_CropDeadTerminal ==
    /\ (ret.op = "canopy_cover" /\ ret.WasDead) => NewCond.CropDead
    /\ (CcCalled /\ ~ret.WasDead /\ CcChecked /\ NewCond.CC < 10)
          => (NewCond.CropDead /\ NewCond.CC = 0)
    /\ (ret.op = "canopy_cover" /\ ~ret.WasDead /\ NewCond.CropDead)
          => (CcCalled /\ CcChecked)

\* a crop that was alive died of early senescence while its canopy was growing
C8_Witness ==
    /\ CcCalled
    /\ ~ret.WasDead
    /\ ret.tCCadj < Crop.CanopyDevEnd
    /\ ret.sen = "stress"
    /\ NewCond.CropDead
    /\ NewCond.CC = 0

\* C12: the ground-shading adjustment applied by canopy_cover,
\* CCadj = 1.72 * CC - CC^2 + 0.3 * CC^3 (and the same for CC_NS), maps every
\* cover in [0, 1] to an adjusted cover in [0, 1].
C12_GroundShadingWithinUnit ==
    /\ (NewCond.CC >= 0 /\ NewCond.CC <= 10 * SC)
          => (NewCond.CCadj >= 0 /\ NewCond.CCadj <= 10 * SC)
    /\ (NewCond.CC_NS >= 0 /\ NewCond.CC_NS <= 10 * SC)
          => (NewCond.CCadj_NS >= 0 /\ NewCond.CCadj_NS <= 10 * SC)

----------------------------------------------------------------------------
(* Harvest index: the days of a season, on each of which the reference     *)
(* harvest index is advanced by HIref_current_day and the adjusted one by  *)
(* harvest_index.                                                          *)

\* days of the season followed
HarvestDays == 7

InitHI ==
    /\ prof = MkProfile(Loam, Pan)
    /\ Soil = [zTop |-> 100]
    /\ \E CropType \in {1, 2, 3}, dHI0 \in {0, 15} :
          Crop = [CropType |-> CropType, Zmin |-> 200, Aer |-> 5,
                  p_up |-> <<140, 690, 690, 800>>, p_lo |-> <<720, SC, SC, SC>>,
                  ETadj |-> 0, beta |-> 12, fshape_w |-> <<3 * SC, 6 * SC, 2700>>,
                  HIstartCD |-> 2, FloweringCD |-> 3, CanopyDevEndCD |-> 6,
                  YldFormCD |-> 6, HIendCD |-> 8, tLinSwitch |-> 3, dHILinear |-> 100,
                  HIini |-> 10, HI0 |-> 480, HIGC |-> 2 * SC, dHI0 |-> dHI0,
                  dHI_pre |-> 5, a_HI |-> 1, b_HI |-> 3, exc |-> 50,
                  CCmin |-> 50, CCx |-> 8 * SC,
                  PolHeatStress |-> 1, Tmax_lo |-> 35, Tmax_up |-> 40,
                  PolColdStress |-> 1, Tmin_lo |-> 5, Tmin_up |-> 10,
                  fshape_b |-> 13810]
    /\ IrrMngt = NoParams
    /\ FieldMngt = NoParams
    /\ \E biomass \in { <<900, SC>>, <<SC, SC>>, <<0, 0>> } :
          NewCond = [th |-> prof.th_fc, Zroot |-> 250, DAP |-> 0, DelayedCDs |-> 0,
                     tEarlySen |-> 0, CC |-> 6 * SC, CCprev |-> 6 * SC,
                     B |-> biomass[1], B_NS |-> biomass[2],
                     YieldForm |-> FALSE, PctLagPhase |-> 0, HIref |-> 0,
                     HI |-> 0, HIadj |-> 0, PreAdj |-> FALSE,
                     Fpre |-> SC, Fpol |-> 0, Fpost |-> SC,
                     fpost_upp |-> SC, fpost_dwn |-> SC, sCor1 |-> 0, sCor2 |-> 0]
    /\ ret = RetNone
    /\ nCalls = 0

\* the start of a day: the day count has advanced, the water balance has left
\* the soil at th and the canopy at CC; the season, once over, stays over
HIrefCurrentDay ==
    /\ NewCond.DAP < HarvestDays
    /\ ret.op \notin {"HIref_current_day", "failed"}
    /\ \E th \in DayWater(prof), CC \in {50, 6 * SC}, GrowingSeason \in BOOLEAN :
          /\ (ret.op = "harvest_index" /\ ~ret.GrowingSeason) => ~GrowingSeason
          /\ NewCond' = HIref_current_day([NewCond EXCEPT !.DAP = @ + 1, !.th = th,
                                                          !.CCprev = NewCond.CC, !.CC = CC],
                                          Crop, GrowingSeason)
          /\ ret' = [op |-> "HIref_current_day", GrowingSeason |-> GrowingSeason]
    /\ UNCHANGED <<prof, Soil, Crop, IrrMngt, FieldMngt, nCalls>>

\* the end of the day, under the day's temperatures
HarvestIndex ==
    /\ ret.op = "HIref_current_day"
    /\ \E Tmax \in {30, 38} :
          \E r \in { harvest_index(prof, Soil.zTop, Crop, NewCond, 5 * SC, Tmax, 15,
                                   ret.GrowingSeason) } :
             IF r.ok
             THEN /\ NewCond' = r.Cond
                  /\ ret' = [op |-> "harvest_index", GrowingSeason |-> ret.GrowingSeason,
                             HI |-> NewCond.HI, HIadj |-> NewCond.HIadj,
                             PreAdj |-> NewCond.PreAdj, Fpre |-> NewCond.Fpre]
             ELSE /\ NewCond' = NewCond
                  /\ ret' = [op |-> "failed", GrowingSeason |-> ret.GrowingSeason,
                             HI |-> NewCond.HI, HIadj |-> NewCond.HIadj,
                             PreAdj |-> NewCond.PreAdj, Fpre |-> NewCond.Fpre,
                             why |-> r.why]
    /\ UNCHANGED <<prof, Soil, Crop, IrrMngt, FieldMngt, nCalls>>

NextHI == HIrefCurrentDay \/ HarvestIndex

SpecHI == InitHI /\ [][NextHI]_vars

\* a growing-season call of harvest_index
HiCalled == ret.op = "harvest_index" /\ ret.GrowingSeason

\* the day of the call lies in the yield-formation window
HiWindow ==
    NewCond.YieldForm /\ NewCond.DAP - NewCond.DelayedCDs - Crop.HIstartCD - 1 >= 0

\* C5: over any sequence of growing-season days the adjusted harvest index
\* HIadj stays at or below HI0 * (1 + dHI0 / 100), and on every growing-season
\* day outside the yield-formation window (YieldForm false or HIt < 0)
\* harvest_index leaves HI and HIadj at the previous day's values.
C5_HarvestIndexBounded ==
    /\ NewCond.HIadj * SC <= Crop.HI0 * (SC + 10 * Crop.dHI0)
    /\ (HiCalled /\ ~HiWindow)
          => (NewCond.HI = ret.HI /\ NewCond.HIadj = ret.HIadj)

\* a day of yield formation on which the product of the adjustment factors
\* is above 1 + dHI0 / 100 and the adjusted harvest index stands at its bound,
\* above HI0
C5_Witness ==
    /\ HiCalled /\ HiWindow
    /\ Crop.dHI0 > 0
    /\ (NewCond.Fpre * NewCond.Fpost) \div SC > SC + 10 * Crop.dHI0
    /\ NewCond.HIadj = (Crop.HI0 * (SC + 10 * Crop.dHI0)) \div SC

\* C17: when harvest_index makes the pre-anthesis adjustment (first day of
\* yield formation, dHI_pre > 0) with a no-stress biomass B_NS of 0, the
\* biomass ratio is not evaluated as a division by zero: the call completes
\* and the pre-anthesis multiplier is the neutral 1.
C17_ZeroBiomassNeutral ==
    (/\ ret.op \in {"harvest_index", "failed"} /\ ret.GrowingSeason /\ HiWindow
     /\ Crop.CropType \in {2, 3} /\ ~ret.PreAdj
     /\ Crop.dHI_pre > 0 /\ NewCond.B_NS = 0 /\ NewCond.CC > 100)
       => (ret.op = "harvest_index" /\ NewCond.Fpre = SC)

\* a call of harvest_index in the yield-formation window of a crop with a
\* pre-anthesis adjustment (CropType 2 or 3), completed or failed
HiFormed ==
    /\ ret.op \in {"harvest_index", "failed"} /\ ret.GrowingSeason /\ HiWindow
    /\ Crop.CropType \in {2, 3}

\* the call that makes the pre-anthesis adjustment, under a canopy cover of
\* at most 0.01
HiNoCanopy == HiFormed /\ ~ret.PreAdj /\ NewCond.CC <= 100

\* the pre-anthesis multiplier is computed by the first call in the window
\* only: that call sets PreAdj, and every other call leaves Fpre and PreAdj
\* as they were
HiPreOnce ==
    /\ (HiFormed /\ ret.op = "harvest_index") => NewCond.PreAdj
    /\ (ret.op = "harvest_index" /\ (ret.PreAdj \/ ~HiFormed))
          => (NewCond.Fpre = ret.Fpre /\ NewCond.PreAdj = ret.PreAdj)

\* C26 (as stated): when HIadj_pre_anthesis is evaluated with a canopy cover
\* CC <= 0.01 the pre-anthesis multiplier is pinned to its no-effect value 1,
\* so the harvest index computed by harvest_index is left unchanged; and the
\* multiplier is computed once per season, on the first yield-formation day,
\* and not recomputed on later days.
C26_NoCanopyNoEffect ==
    /\ HiNoCanopy => (ret.op = "harvest_index" /\ NewCond.Fpre = SC)
    /\ HiPreOnce

\* C26 (amended): when HIadj_pre_anthesis is evaluated with a canopy cover
\* CC <= 0.01 the call either fails on a no-stress biomass of 0 or sets the
\* pre-anthesis multiplier to 0, and with it the adjusted harvest index; the
\* multiplier is computed once per season, on the first yield-formation day,
\* and while it is 0 the adjusted harvest index of every later day is 0.
C26_NoCanopyNoYield ==
    /\ HiNoCanopy
          => \/ ret.op = "failed" /\ NewCond.B_NS = 0 /\ Crop.dHI_pre > 0
             \/ ret.op = "harvest_index" /\ NewCond.Fpre = 0 /\ NewCond.HIadj = 0
    /\ (HiFormed /\ ret.op = "harvest_index" /\ NewCond.Fpre = 0)
          => NewCond.HIadj = 0
    /\ HiPreOnce

\* a later day of yield formation under a green canopy on which the
\* multiplier still is the 0 of the first day and the harvest index, whose
\* reference value has grown, is adjusted to 0
C26_Witness ==
    /\ HiFormed /\ ret.op = "harvest_index"
    /\ ret.PreAdj /\ ret.Fpre = 0
    /\ NewCond.CC > 100
    /\ NewCond.Fpre = 0 /\ NewCond.HI > 0 /\ NewCond.HIadj = 0

----------------------------------------------------------------------------
(* Transpiration: the days of a season on a field irrigated by rainfall    *)
(* only or by net irrigation.                                              *)

\* days of the season followed
TrDays == 2

\* water contents (1/(100 * SC)) the water balance may leave: every
\* compartment at a tenth k of the way from wilting point to field capacity,
\* a wet top over a dry subsoil, a saturated top over a dry subsoil, a
\* saturated profile and a nearly dry one
TrWater(p) ==
    { [i \in Comps |-> 100 * p.th_wp[i] + 10 * k * (p.th_fc[i] - p.th_wp[i])] : k \in {3, 6, 10} }
    \cup { [i \in Comps |-> IF i = 1 THEN 100 * p.th_fc[i]
                            ELSE 100 * p.th_wp[i] + 10 * (p.th_fc[i] - p.th_wp[i])],
           [i \in Comps |-> IF i = 1 THEN 100 * p.th_s[i] ELSE 100 * p.th_dry[i]],
           [i \in Comps |-> 100 * p.th_s[i]],
           [i \in Comps |-> 100 * p.th_dry[i] + 50] }

InitTr ==
    /\ prof = MkProfile(Loam, Pan)
    /\ Soil = [zTop |-> 100, nComp |-> nComp]
    /\ \E ETadj \in {0, 1} :
          Crop = [Zmin |-> 200, Aer |-> 5, LagAer |-> 3,
                  p_up |-> <<140, 690, 690, 800>>, p_lo |-> <<720, SC, SC, SC>>,
                  ETadj |-> ETadj, beta |-> 12, fshape_w |-> <<3 * SC, 6 * SC, 2700>>,
                  Kcb |-> 1050, fage |-> 300, a_Tr |-> SC, MaxCanopyCD |-> 1,
                  TrColdStress |-> 1, GDD_lo |-> 0, GDD_up |-> 12 * SC,
                  SxTop |-> 4800, SxBot |-> 1200]
    /\ \E IrrMethod \in {0, 4}, NetIrrSMT \in {50, 80} :
          IrrMngt = [IrrMethod |-> IrrMethod, NetIrrSMT |-> NetIrrSMT]
    /\ FieldMngt = NoParams
    /\ NewCond = [th |-> [i \in Comps |-> 100 * prof.th_fc[i]], Zroot |-> 250,
                  DAP |-> 0, DelayedCDs |-> 0, tEarlySen |-> 0, rCor |-> SC,
                  AgeDays |-> 0, AgeDays_NS |-> 0,
                  CC |-> 7 * SC, CCprev |-> 7 * SC, CCadj |-> 8 * SC, CCxW |-> 8 * SC,
                  CC_NS |-> 8 * SC, CCadj_NS |-> 9 * SC, CCxW_NS |-> 8 * SC,
                  SurfaceStorage |-> 0, DaySubmerged |-> 0,
                  AerDays |-> 0, AerDaysComp |-> [i \in Comps |-> 0],
                  Depletion |-> 0, TAW |-> 0, IrrNetCum |-> 0, TrRatio |-> SC, Tpot |-> 0]
    /\ ret = RetNone
    /\ nCalls = 0

\* one day: the day count has advanced and the water balance has left the
\* soil at th and the surface storage at store; the season, once over, stays
\* over
Transpiration ==
    /\ NewCond.DAP < TrDays
    /\ \E th \in TrWater(prof), store \in {0, 20 * SC}, GrowingSeason \in BOOLEAN,
          undef \in {0, SC} :
          /\ (ret.op = "transpiration" /\ ~ret.GrowingSeason) => ~GrowingSeason
          /\ Crop.ETadj = 1 => undef = 0
          /\ \E r \in { transpiration(prof, Soil.nComp, Soil.zTop, Crop,
                                      IrrMngt.IrrMethod, IrrMngt.NetIrrSMT,
                                      [NewCond EXCEPT !.DAP = @ + 1, !.th = th,
                                                      !.SurfaceStorage = store],
                                      5 * SC, [CurrentConc |-> 400, RefConc |-> 370],
                                      GrowingSeason, 8 * SC, undef) } :
                /\ r.ok
                /\ NewCond' = r.Cond
                /\ ret' = [op |-> "transpiration", GrowingSeason |-> GrowingSeason,
                           th |-> th, TrAct |-> r.TrAct, TrPot0 |-> r.TrPot0,
                           TrPot_NS |-> r.TrPot_NS, IrrNet |-> r.IrrNet,
                           Asked |-> r.Asked, TrPot |-> r.TrPot, Sinks |-> r.Sinks,
                           Extracted |-> r.Extracted, Refilled |-> r.Refilled,
                           Unassigned |-> r.Unassigned,
                           IrrNetCum |-> NewCond.IrrNetCum]
    /\ UNCHANGED <<prof, Soil, Crop, IrrMngt, FieldMngt, nCalls>>

NextTr == Transpiration

SpecTr == InitTr /\ [][NextTr]_vars

\* a growing-season call of transpiration in net-irrigation mode from a root
\* zone whose water content was below the net-irrigation threshold
TrNetIrrDay ==
    /\ ret.op = "transpiration" /\ ret.GrowingSeason
    /\ IrrMngt.IrrMethod = 4
    /\ LET rz == root_zone_water(prof, NewCond.Zroot, ret.th, Soil.zTop, Crop.Zmin,
                                 Crop.Aer, 0).thRZ
       IN  rz.Act < rz.WP + (IrrMngt.NetIrrSMT * (rz.FC - rz.WP)) \div 100

\* what transpiration leaves on a day of net irrigation: the root-zone
\* demand and the compartments' sinks not reduced by the soil-moisture stress
\* coefficient (only the aeration coefficient scales a sink), and, if refill
\* holds, every compartment fully inside the root zone at its layer's
\* threshold th_wp + NetIrrSMT / 100 * (th_fc - th_wp)
TrNetIrrDone(refill) ==
    /\ ret.TrPot = ret.Asked
    /\ \A k \in 1 .. Len(ret.Sinks) :
          ret.Sinks[k].want
             = (((ret.Sinks[k].Aer * ((Crop.SxTop + Crop.SxBot) \div 2)) \div SC)
                   * ret.Sinks[k].RootFact) \div SC
    /\ refill =>
          \A i \in Comps :
             prof.dzsum[i] <= RoundTo(Max(NewCond.Zroot, Crop.Zmin), 10)
                => NewCond.th[i] = 100 * prof.th_wp[i]
                                     + IrrMngt.NetIrrSMT * (prof.th_fc[i] - prof.th_wp[i])

\* C11 (as stated): in net-irrigation mode (IrrMethod 4) on a growing-season
\* day with positive potential transpiration and root-zone water content
\* below the net-irrigation threshold, transpiration applies no soil-moisture
\* stress coefficient to the root-zone demand or to a compartment's sink, and
\* after the call every compartment fully inside the root zone holds exactly
\* its layer's threshold.
C11_AsStated ==
    (TrNetIrrDay /\ ret.TrPot0 > 0) => TrNetIrrDone(TRUE)

\* C11 (amended): on such a day no soil-moisture stress coefficient is applied
\* to the root-zone demand or to a compartment's sink, and the compartments
\* fully inside the root zone are left exactly at their layer's threshold
\* when the potential transpiration left for the root zone, after surface
\* storage has met its share on a submerged field, is positive.
C11_NetIrrigation ==
    (TrNetIrrDay /\ ret.TrPot0 > 0) => TrNetIrrDone(ret.Asked > 0)

\* a net-irrigation day on which the top compartment, drier than the stomatal
\* threshold, gave its full sink and net irrigation then refilled the root zone
C11_Witness ==
    /\ TrNetIrrDay /\ ret.Asked > 0
    /\ ret.th[1] < 100 * prof.th_wp[1] + 40 * (prof.th_fc[1] - prof.th_wp[1])
    /\ Len(ret.Sinks) > 0
    /\ ret.Sinks[1].want = (Crop.SxTop + Crop.SxBot) \div 2
    /\ ret.Sinks[1].Sink > 0
    /\ ret.IrrNet > 0

\* a growing-season call of transpiration in net-irrigation mode
TrNetCalled ==
    ret.op = "transpiration" /\ ret.GrowingSeason /\ IrrMngt.IrrMethod = 4

\* the depth (1/SC mm) by which the top-up changed compartment i
TrAdded(i) == ((NewCond.th[i] - ret.Extracted[i]) * prof.dz[i]) \div 100

\* the top-up lowers no compartment
TrNoneLowered == \A i \in Comps : NewCond.th[i] >= ret.Extracted[i]

\* IrrNet is not negative and is, to the rounding of a compartment's depth,
\* the depth added to the compartments that gained water
TrNetIsAdded ==
    /\ ret.IrrNet >= 0
    /\ Abs(ret.IrrNet - Sum([i \in Comps |-> Max(TrAdded(i), 0)])) <= nComp

\* the season's net irrigation grows by the day's
TrNetCumGrows ==
    /\ NewCond.IrrNetCum >= ret.IrrNetCum
    /\ NewCond.IrrNetCum = ret.IrrNetCum + ret.IrrNet

\* C27: in net-irrigation mode the top-up step of transpiration never
\* lowers the water content of any compartment (a compartment already above
\* its layer threshold is left as it is), the reported IrrNet is >= 0 and
\* equals the total depth added to root-zone compartments, and IrrNetCum is
\* non-decreasing over a growing season.
C27_NetIrrigationOnlyAdds ==
    TrNetCalled => (TrNoneLowered /\ TrNetIsAdded /\ TrNetCumGrows)

\* a growing-season call of transpiration with a positive demand on the root
\* zone
TrDemand == ret.op = "transpiration" /\ ret.GrowingSeason /\ ret.TrPot > 0

\* no compartment that started the day at or above air-dry is below it
TrAboveDry ==
    \A i \in Comps :
       ret.th[i] >= 100 * prof.th_dry[i]
          => (ret.Extracted[i] >= 100 * prof.th_dry[i]
              /\ NewCond.th[i] >= 100 * prof.th_dry[i])

\* C28: transpiration completes on every growing-season day with positive
\* root-zone demand whether or not ET adjustment of the stress thresholds is
\* enabled: for Crop.ETadj = 0 as for Crop.ETadj = 1 the critical water
\* content for stomatal closure of a compartment is computed from a defined
\* upper threshold, so the extraction loop never reads an unassigned value;
\* and after extraction no compartment that started at or above air-dry is
\* below air-dry.
C28_DefinedThreshold ==
    TrDemand => (~ret.Unassigned /\ TrAboveDry)

----------------------------------------------------------------------------
(* Root growth: the days of a season from planting, over soils with and    *)
(* without a restrictive layer and with no water table.                    *)

\* days of the season followed; the roots reach their maximum depth on the
\* last but one
RootDays == 4

InitGrow ==
    /\ prof \in { MkProfile(Loam, Loam), MkProfile(Loam, Pan) }
    /\ Soil = [WaterTable |-> 0]
    /\ \E Zmin \in {100, 200}, fshape_ex \in {0 - 6 * SC, 0} :
          Crop = [CalendarType |-> 1, Zmin |-> Zmin, Zmax |-> 290, PctZmin |-> 70,
                  Emergence |-> 2, MaxRooting |-> RootDays - 1, fshape_r |-> 1500,
                  fshape_ex |-> fshape_ex, p_up |-> <<140, 690, 690, 800>>,
                  fshape_w |-> <<3 * SC, 6 * SC, 2700>>, SxTop |-> 48, SxBot |-> 12]
    /\ IrrMngt = NoParams
    /\ FieldMngt = NoParams
    /\ NewCond = [th |-> prof.th_fc, zGW |-> 0 - 999 * SC,
                  DAP |-> 0, DelayedCDs |-> 0, GDDcum |-> 0, DelayedGDDs |-> 0,
                  Zroot |-> 0, rCor |-> SC, TrRatio |-> SC, Tpot |-> 0,
                  CC |-> 0, CC_NS |-> 0, Germination |-> FALSE]
    /\ ret = RetNone
    /\ nCalls = 0

\* one day: the day count has advanced, the day before has left the soil at
\* th, the transpiration at Tpot and its ratio at TrRatio, and the seed
\* germinated or not; a germinated crop stays germinated and the season,
\* once over, stays over
RootGrowth ==
    /\ NewCond.DAP < RootDays
    /\ \E th \in DayWater(prof), drive \in { <<SC, 3 * SC>>, <<600, 3 * SC>>,
                                            <<0, 3 * SC>>, <<SC, 0>> },
          germinated \in BOOLEAN, GrowingSeason \in BOOLEAN :
          /\ (ret.op = "root_development" /\ ~ret.GrowingSeason) => ~GrowingSeason
          /\ (ret.op = "root_development" /\ NewCond.Germination) => germinated
          /\ \E r \in { root_development(Crop, prof,
                                          [NewCond EXCEPT !.DAP = @ + 1, !.th = th,
                                                          !.TrRatio = drive[1],
                                                          !.Tpot = drive[2],
                                                          !.Germination = germinated,
                                                          !.CC = IF germinated THEN 500 ELSE 0,
                                                          !.CC_NS = 500],
                                          0, GrowingSeason, Soil.WaterTable) } :
                /\ r.ok
                /\ NewCond' = r.Cond
                /\ ret' = [op |-> "root_development", GrowingSeason |-> GrowingSeason,
                           Zroot_init |-> IF NewCond.DAP = 0 THEN Crop.Zmin
                                          ELSE NewCond.Zroot,
                           ZrPot |-> IF GrowingSeason THEN r.ZrPot ELSE 0]
    /\ UNCHANGED <<prof, Soil, Crop, IrrMngt, FieldMngt, nCalls>>

NextGrow == RootGrowth

SpecGrow == InitGrow /\ [][NextGrow]_vars

\* a growing-season call of root_development
RootCalled == ret.op = "root_development" /\ ret.GrowingSeason

\* the roots start the season at Zmin
RootStartsAtZmin == NewCond.DAP = 1 => NewCond.Zroot = Crop.Zmin

\* the day's increment is not negative and the depth stays within
\* [Zmin, Zmax]
RootNeverShrinks ==
    /\ NewCond.Zroot - ret.Zroot_init >= 0
    /\ NewCond.Zroot >= Crop.Zmin /\ NewCond.Zroot <= Crop.Zmax

\* no growth before germination
RootWaitsForGermination ==
    ~NewCond.Germination => NewCond.Zroot = ret.Zroot_init

\* the root-correction factor is at least 1
RootCorrection == NewCond.rCor >= SC

\* C30: over any sequence of consecutive growing-season days starting at
\* DAP 1, with no water table and a transpiration ratio in [0, 1],
\* root_development sets Zroot = Zmin on DAP 1 and on every later day the
\* daily increment is >= 0, so Zroot is non-decreasing and stays within
\* [Zmin, Zmax], for every soil penetrability profile including restrictive
\* layers; the increment is exactly 0 on every day the crop has not
\* germinated, and the root-correction factor rCor is always >= 1.
C30_RootDepthNeverShrinks ==
    RootCalled => (/\ RootStartsAtZmin /\ RootNeverShrinks
                   /\ RootWaitsForGermination /\ RootCorrection)

----------------------------------------------------------------------------
(* Pre-irrigation: the days around the start of a season.                  *)

\* pre_irrigation(prof, Crop, InitCond, GrowingSeason, IrrMngt):
\* [ok, Cond, PreIrr], th in 1/SC, PreIrr in 1/SC mm
pre_irrigation(p, Cr, I, GrowingSeason, IM) ==
    LET rootdepth == RoundTo(Max(I.Zroot, Cr.Zmin), 10)
        \* np.argwhere(prof.dzsum >= rootdepth).flatten(), as 0-based indices
        at   == { i - 1 : i \in { j \in DOMAIN p.dzsum : p.dzsum[j] >= rootdepth } }
        thCrit(ii) == p.th_wp[ii] + (IM.NetIrrSMT * (p.th_fc[ii] - p.th_wp[ii])) \div 100
        RECURSIVE Fill(_, _, _)
        \* for ii in range(int(compRz)), ii + 1 the compartment in 1-based
        \* numbering
        Fill(st, ii, compRz) ==
            IF ii >= compRz THEN st
            ELSE IF st.th[ii + 1] < thCrit(ii + 1)
            THEN Fill([th |-> [st.th EXCEPT ![ii + 1] = thCrit(ii + 1)],
                       PreIrr |-> st.PreIrr + (thCrit(ii + 1) - st.th[ii + 1]) * p.dz[ii + 1]],
                      ii + 1, compRz)
            ELSE Fill(st, ii + 1, compRz)
        Filled(f) == [ok |-> TRUE, Cond |-> [I EXCEPT !.th = f.th], PreIrr |-> f.PreIrr]
    IN  IF GrowingSeason
        THEN IF IM.IrrMethod # 4 \/ I.DAP # 1
             THEN [ok |-> TRUE, Cond |-> I, PreIrr |-> 0]
             ELSE IF at = {} THEN [ok |-> FALSE, why |-> "IndexError"]
             ELSE Only({ Filled(f) :
                         f \in { Fill([th |-> I.th, PreIrr |-> 0], 0,
                                      CHOOSE c \in at : \A d \in at : c <= d) } })
        ELSE [ok |-> TRUE, Cond |-> I, PreIrr |-> 0]

InitPre ==
    /\ prof \in Profiles
    /\ Soil = NoParams
    /\ Crop = [Zmin |-> 100]
    /\ \E IrrMethod \in {0, 4}, NetIrrSMT \in {50, 80} :
          IrrMngt = [IrrMethod |-> IrrMethod, NetIrrSMT |-> NetIrrSMT]
    /\ FieldMngt = NoParams
    /\ NewCond = [th |-> prof.th_fc, Zroot |-> 100, DAP |-> 0]
    /\ ret = RetNone
    /\ nCalls = 0

\* one day: the day count has advanced, the water balance of the day before
\* has left the soil at th and the roots at Zroot; the season, once over,
\* stays over
PreIrrigation ==
    /\ NewCond.DAP < MaxDAP
    /\ ret.op # "failed"
    /\ \E th \in DayWater(prof) \cup { [i \in Comps |-> IF i = 1 THEN prof.th_fc[i]
                                                        ELSE prof.th_wp[i]] },
          Zroot \in {50, 100, 150, 200, 250},
          GrowingSeason \in BOOLEAN :
          /\ (ret.op = "pre_irrigation" /\ ~ret.GrowingSeason) => ~GrowingSeason
          /\ \E r \in { pre_irrigation(prof, Crop,
                                        [NewCond EXCEPT !.DAP = @ + 1, !.th = th,
                                                        !.Zroot = Zroot],
                                        GrowingSeason, IrrMngt) } :
                IF r.ok
                THEN /\ NewCond' = r.Cond
                     /\ ret' = [op |-> "pre_irrigation", GrowingSeason |-> GrowingSeason,
                                th |-> th, PreIrr |-> r.PreIrr]
                ELSE /\ NewCond' = [NewCond EXCEPT !.DAP = @ + 1, !.th = th,
                                                   !.Zroot = Zroot]
                     /\ ret' = [op |-> "failed", GrowingSeason |-> GrowingSeason,
                                th |-> th, PreIrr |-> 0, why |-> r.why]
    /\ UNCHANGED <<prof, Soil, Crop, IrrMngt, FieldMngt, nCalls>>

NextPre == PreIrrigation

SpecPre == InitPre /\ [][NextPre]_vars

\* a call of pre_irrigation on the first day of a growing season in
\* net-irrigation mode
PreFirstDay ==
    /\ ret.op \in {"pre_irrigation", "failed"} /\ ret.GrowingSeason
    /\ IrrMngt.IrrMethod = 4 /\ NewCond.DAP = 1

\* the compartments covered by the root zone: those that begin above the
\* root front, the one that contains it included
PreCovered ==
    { i \in Comps :
        prof.dzsum[i] - prof.dz[i] < RoundTo(Max(NewCond.Zroot, Crop.Zmin), 10) }

\* the critical content of compartment i
PreCrit(i) ==
    prof.th_wp[i] + (IrrMngt.NetIrrSMT * (prof.th_fc[i] - prof.th_wp[i])) \div 100

\* every compartment of the set below its critical content has been raised
\* to it
PreRaised(comps) ==
    \A i \in comps : ret.th[i] < PreCrit(i) => NewCond.th[i] = PreCrit(i)

\* no compartment is lowered and PreIrr is the depth added
PreOnlyAdds ==
    /\ \A i \in Comps : NewCond.th[i] >= ret.th[i]
    /\ ret.PreIrr = Sum([i \in Comps |-> (NewCond.th[i] - ret.th[i]) * prof.dz[i]])

\* on any other day, under any other method and outside the growing season
\* nothing is applied
PreNothingElse ==
    (ret.op \in {"pre_irrigation", "failed"} /\ ~PreFirstDay)
       => (ret.op = "pre_irrigation" /\ ret.PreIrr = 0 /\ NewCond.th = ret.th)

\* C29: on the first day of a growing season in net-irrigation mode
\* (IrrMethod 4, DAP 1) every compartment covered by the root zone, the one
\* that contains the root front included, that is below its critical content
\* th_wp + NetIrrSMT / 100 * (th_fc - th_wp) is raised to exactly that
\* content, no compartment is lowered and PreIrr is the total depth added;
\* on any other day, under any other method or outside the growing season
\* PreIrr = 0 and no water content changes.
C29_PreIrrigation ==
    /\ PreFirstDay => (ret.op = "pre_irrigation" /\ PreRaised(PreCovered) /\ PreOnlyAdds)
    /\ PreNothingElse

----------------------------------------------------------------------------
(* Season end: the step functions on days outside the growing season, from *)
(* what a season has left behind.                                          *)

InitOff ==
    /\ prof = MkProfile(Loam, Pan)
    /\ Soil = [zTop |-> 100, zGerm |-> 250, nComp |-> nComp, WaterTable |-> 0]
    /\ \E CropType \in {1, 3} :
          Crop = [CalendarType |-> 1, CropType |-> CropType, Zmin |-> 200, Aer |-> 5,
                  GermThr |-> 200, PlantMethod |-> TRUE, HIstartCD |-> 2]
    /\ \E IrrMethod \in {1, 4} :
          IrrMngt = [IrrMethod |-> IrrMethod, NetIrrSMT |-> 80, MaxIrrSeason |-> 40 * SC]
    /\ FieldMngt = NoParams
    /\ \E th \in StartProfiles(prof), Zroot \in {250, 290} :
          NewCond = [th |-> th, Zroot |-> Zroot, rCor |-> SC,
                     DAP |-> 9, DelayedCDs |-> 1, GDDcum |-> 90 * SC, DelayedGDDs |-> 8 * SC,
                     Germination |-> TRUE, ProtectedSeed |-> TRUE, GrowthStage |-> 4,
                     CC |-> 3 * SC, CCprev |-> 4 * SC, CC_NS |-> 5 * SC,
                     CCadj |-> 4353, CCadj_NS |-> 6475,
                     CCxW |-> 7 * SC, CCxAct |-> 7 * SC, CCxW_NS |-> 8 * SC,
                     CCxAct_NS |-> 8 * SC,
                     IrrCum |-> 30 * SC, IrrNetCum |-> 12 * SC, Tpot |-> 3 * SC,
                     TrRatio |-> 900, B |-> 900 * SC, B_NS |-> 1100 * SC,
                     HIref |-> 480, HI |-> 480, HIadj |-> 500,
                     YieldForm |-> TRUE, PctLagPhase |-> 100]
    /\ ret = RetNone
    /\ nCalls = 0

OffRootDevelopment ==
    /\ \E r \in { root_development(Crop, prof, NewCond, 0, FALSE, Soil.WaterTable) } :
          /\ r.ok
          /\ NewCond' = r.Cond
    /\ ret' = [op |-> "root_development", th |-> NewCond.th, out |-> 0]
    /\ UNCHANGED <<prof, Soil, Crop, IrrMngt, FieldMngt, nCalls>>

OffGermination ==
    /\ \E r \in { germination(NewCond, Soil.zGerm, prof, Crop.GermThr, Crop.PlantMethod,
                              0, FALSE) } :
          /\ r.ok
          /\ NewCond' = r.Cond
    /\ ret' = [op |-> "germination", th |-> NewCond.th, out |-> 0]
    /\ UNCHANGED <<prof, Soil, Crop, IrrMngt, FieldMngt, nCalls>>

OffGrowthStage ==
    /\ NewCond' = growth_stage(Crop, NewCond, FALSE)
    /\ ret' = [op |-> "growth_stage", th |-> NewCond.th, out |-> 0]
    /\ UNCHANGED <<prof, Soil, Crop, IrrMngt, FieldMngt, nCalls>>

OffCanopyCover ==
    /\ \E r \in { canopy_cover(Crop, prof, Soil.zTop, NewCond, 0, 5 * SC, FALSE) } :
          /\ r.ok
          /\ NewCond' = r.Cond
    /\ ret' = [op |-> "canopy_cover", th |-> NewCond.th, out |-> 0]
    /\ UNCHANGED <<prof, Soil, Crop, IrrMngt, FieldMngt, nCalls>>

OffIrrigation ==
    /\ \E Rain \in {0, 20 * SC} :
          \E r \in { irrigation(NewCond, IrrMngt, Crop, prof, Soil.zTop, FALSE, Rain, 0) } :
             /\ r.ok
             /\ NewCond' = r.Cond
             /\ ret' = [op |-> "irrigation", th |-> NewCond.th, out |-> r.Irr]
    /\ UNCHANGED <<prof, Soil, Crop, IrrMngt, FieldMngt, nCalls>>

OffTranspiration ==
    /\ \E r \in { transpiration(prof, Soil.nComp, Soil.zTop, Crop, IrrMngt.IrrMethod,
                                IrrMngt.NetIrrSMT, NewCond, 5 * SC,
                                [CurrentConc |-> 400, RefConc |-> 370], FALSE, 0, 0) } :
          /\ r.ok
          /\ NewCond' = r.Cond
          /\ ret' = [op |-> "transpiration", th |-> NewCond.th, out |-> r.TrAct]
    /\ UNCHANGED <<prof, Soil, Crop, IrrMngt, FieldMngt, nCalls>>

OffBiomassAccumulation ==
    /\ \E Et0 \in {0, 5 * SC} :
          \E r \in { biomass_accumulation(Crop, NewCond, 0, 0, Et0, FALSE) } :
             /\ r.ok
             /\ NewCond' = r.Cond
    /\ ret' = [op |-> "biomass_accumulation", th |-> NewCond.th, out |-> 0]
    /\ UNCHANGED <<prof, Soil, Crop, IrrMngt, FieldMngt, nCalls>>

OffHIrefCurrentDay ==
    /\ NewCond' = HIref_current_day(NewCond, Crop, FALSE)
    /\ ret' = [op |-> "HIref_current_day", th |-> NewCond.th, out |-> 0]
    /\ UNCHANGED <<prof, Soil, Crop, IrrMngt, FieldMngt, nCalls>>

OffHarvestIndex ==
    /\ \E r \in { harvest_index(prof, Soil.zTop, Crop, NewCond, 5 * SC, 30, 15, FALSE) } :
          /\ r.ok
          /\ NewCond' = r.Cond
    /\ ret' = [op |-> "harvest_index", th |-> NewCond.th, out |-> 0]
    /\ UNCHANGED <<prof, Soil, Crop, IrrMngt, FieldMngt, nCalls>>

NextOff ==
    \/ OffRootDevelopment \/ OffGermination \/ OffGrowthStage \/ OffCanopyCover
    \/ OffIrrigation \/ OffTranspiration \/ OffBiomassAccumulation
    \/ OffHIrefCurrentDay \/ OffHarvestIndex

SpecOff == InitOff /\ [][NextOff]_vars

\* the canopy fields that canopy_cover clears
OffCanopy ==
    <<NewCond.CC, NewCond.CC_NS, NewCond.CCadj, NewCond.CCadj_NS,
      NewCond.CCxW, NewCond.CCxAct, NewCond.CCxW_NS, NewCond.CCxAct_NS>>

\* C13: on a day with GrowingSeason false the step functions put the
\* per-season state back to its dormant defaults: root_development sets
\* Zroot = 0; germination sets Germination and ProtectedSeed false and
\* DelayedCDs = DelayedGDDs = 0; growth_stage sets GrowthStage = 0;
\* canopy_cover sets CC, CC_NS, CCadj, CCadj_NS, CCxW, CCxAct, CCxW_NS and
\* CCxAct_NS to 0; irrigation returns 0 and sets IrrCum = 0; transpiration
\* returns 0 and sets IrrNetCum = 0 and Tpot = 0; biomass_accumulation sets
\* B = B_NS = 0; HIref_current_day sets HIref = 0 and harvest_index sets
\* HI = HIadj = 0; and none of them changes a compartment's water content.
C13_SeasonEndReset ==
    /\ ret.op = "root_development" => NewCond.Zroot = 0
    /\ ret.op = "germination"
          => (~NewCond.Germination /\ ~NewCond.ProtectedSeed
              /\ NewCond.DelayedCDs = 0 /\ NewCond.DelayedGDDs = 0)
    /\ ret.op = "growth_stage" => NewCond.GrowthStage = 0
    /\ ret.op = "canopy_cover" => OffCanopy = <<0, 0, 0, 0, 0, 0, 0, 0>>
    /\ ret.op = "irrigation" => (ret.out = 0 /\ NewCond.IrrCum = 0)
    /\ ret.op = "transpiration"
          => (ret.out = 0 /\ NewCond.IrrNetCum = 0 /\ NewCond.Tpot = 0)
    /\ ret.op = "biomass_accumulation" => (NewCond.B = 0 /\ NewCond.B_NS = 0)
    /\ ret.op = "HIref_current_day" => NewCond.HIref = 0
    /\ ret.op = "harvest_index" => (NewCond.HI = 0 /\ NewCond.HIadj = 0)
    /\ ret.op # "none" => NewCond.th = ret.th

\* every step function has run on days outside the season: the whole
\* per-season state is dormant over a soil that kept its water
C13_Witness ==
    /\ ret.op = "growth_stage"
    /\ NewCond.Zroot = 0 /\ ~NewCond.Germination /\ NewCond.DelayedCDs = 0
    /\ NewCond.GrowthStage = 0 /\ OffCanopy = <<0, 0, 0, 0, 0, 0, 0, 0>>
    /\ NewCond.IrrCum = 0 /\ NewCond.IrrNetCum = 0 /\ NewCond.Tpot = 0
    /\ NewCond.B = 0 /\ NewCond.B_NS = 0
    /\ NewCond.HIref = 0 /\ NewCond.HI = 0 /\ NewCond.HIadj = 0
    /\ NewCond.th = prof.th_s

----------------------------------------------------------------------------
(* rainfall_partition(P, InitCond, FieldMngt, Soil_CN, Soil_AdjCN,         *)
(* Soil_zCN, Soil_nComp, prof): curve-number split of the day's rain into  *)
(* runoff and infiltration.  P, Runoff, Infl and S in 1/SC mm, curve       *)
(* numbers in tenths, zCN and zBund in mm.                                 *)

\* the curve numbers of a dry and of a wet top soil, in tenths
\* (lines 992-1003; the terms in exp(-14 ln 10) vanish in the rounding)
CNbotOf(CN10) ==
    LET cube == ((CN10 * CN10 * CN10) \div SC) * 867
    IN  RoundTo((507 * CN10) \div 10 - (374 * CN10 * CN10) \div (10 * SC)
                   + cube \div (10 * SC), SC) \div 100

CNtopOf(CN10) ==
    LET cube == ((CN10 * CN10 * CN10) \div SC) * 76
    IN  RoundTo((2330 * CN10) \div 10 - (209 * CN10 * CN10) \div SC
                   + cube \div SC, SC) \div 100

\* runoff inhibited, or bunds of at least 0.001 m on the field (line 984)
RainHeld(FM) == FM.SRinhb \/ (FM.Bunds /\ FM.zBund >= 1)

rainfall_partition(P, Cond, FM, Soil_CN, AdjCN, zCN, nC, p) ==
    LET CN0      == (Soil_CN * (100 + FM.CNadjPct)) \div 10
        comp_sto == nC - Cardinality({ i \in 1 .. nC : p.dzsum[i] >= zCN })
        wx(i)    == IF i = 0 THEN 0
                    ELSE (1016 * (SC - Exp(0 - (4160 * Min(p.dzsum[i], zCN)) \div zCN)))
                            \div SC
        wrel(i)  == Max(0, Min(SC, wx(i) - wx(i - 1)))
        wet(i)   == (wrel(i) * (Max(p.th_wp[i], Cond.th[i]) - p.th_wp[i]))
                       \div (p.th_fc[i] - p.th_wp[i])
        wet_top  == Max(0, Min(SC, Sum([i \in 1 .. comp_sto |-> wet(i)])))
        Adjusted(bot, top) == RoundTo(bot * 100 + ((top - bot) * wet_top) \div 10, SC) \div 100
        CN       == IF AdjCN = 1 THEN Adjusted(CNbotOf(CN0), CNtopOf(CN0)) ELSE CN0
        Split(S) ==
            LET term == P - S \div 20
                den  == P + (95 * S) \div 100
            IN  IF term <= 0
                THEN [ok |-> TRUE, Runoff |-> 0, Infl |-> P, S |-> S, CN |-> CN,
                      Cond |-> [Cond EXCEPT !.DaySubmerged = 0]]
                ELSE IF den = 0 THEN [ok |-> FALSE, why |-> "ZeroDivisionError"]
                ELSE Only({ [ok |-> TRUE, Runoff |-> Runoff, Infl |-> P - Runoff,
                             S |-> S, CN |-> CN,
                             Cond |-> [Cond EXCEPT !.DaySubmerged = 0]]
                            : Runoff \in { (term * term) \div den } })
    IN  IF RainHeld(FM)
        THEN [ok |-> TRUE, Runoff |-> 0, Infl |-> P, S |-> 0, CN |-> 0, Cond |-> Cond]
        ELSE IF CN = 0 THEN [ok |-> FALSE, why |-> "ZeroDivisionError"]
        ELSE Only({ Split(S) : S \in { (254 * SC2) \div CN - 254 * SC } })

\* rainfall depths of a day, 1/SC mm
RainDepths == { 0, 2 * SC, 5 * SC, 10 * SC, 40 * SC }

InitRain ==
    /\ prof = MkProfile(Loam, Pan)
    /\ \E CN \in {45, 70, 90}, AdjCN \in {0, 1}, zCN \in {50, 300} :
          Soil = [CN |-> CN, AdjCN |-> AdjCN, zCN |-> zCN, nComp |-> nComp]
    /\ Crop = NoParams
    /\ IrrMngt = NoParams
    /\ \E SRinhb \in BOOLEAN, bund \in { <<FALSE, 0>>, <<TRUE, 0>>, <<TRUE, 200>> },
          CNadjPct \in {0 - 20, 0, 20} :
          FieldMngt = [SRinhb |-> SRinhb, Bunds |-> bund[1], zBund |-> bund[2],
                       CNadjPct |-> CNadjPct]
    /\ NewCond = [th |-> prof.th_fc, DaySubmerged |-> 2]
    /\ ret = RetNone
    /\ nCalls = 0

RainfallPartition ==
    /\ \E P \in RainDepths, th \in StartProfiles(prof) :
          \E r \in { rainfall_partition(P, [NewCond EXCEPT !.th = th], FieldMngt, Soil.CN,
                                        Soil.AdjCN, Soil.zCN, Soil.nComp, prof) } :
             /\ r.ok
             /\ NewCond' = r.Cond
             /\ ret' = [op |-> "rainfall_partition", P |-> P, Runoff |-> r.Runoff,
                        Infl |-> r.Infl, S |-> r.S, CN |-> r.CN,
                        held |-> RainHeld(FieldMngt)]
    /\ UNCHANGED <<prof, Soil, Crop, IrrMngt, FieldMngt, nCalls>>

NextRain == RainfallPartition

SpecRain == InitRain /\ [][NextRain]_vars

\* the four parts of the partition contract for the call just made
RainBalanced == ret.Runoff + ret.Infl = ret.P
RainBounded  == 0 <= ret.Runoff /\ ret.Runoff <= ret.P
RainBelowAbstraction == (~ret.held /\ 20 * ret.P <= ret.S) => ret.Runoff = 0
RainHeldBack == ret.held => ret.Runoff = 0

\* C14: for every rainfall depth P >= 0 and curve number, rainfall_partition
\* returns Runoff and Infl with Runoff + Infl = P and 0 <= Runoff <= P;
\* Runoff is 0 whenever P does not exceed 5% of the retention
\* S = 25400/CN - 254, and whenever runoff is inhibited or bunds of at least
\* 0.001 m are present.
C14_RainfallPartition ==
    ret.op = "rainfall_partition"
       => RainBalanced /\ RainBounded /\ RainBelowAbstraction /\ RainHeldBack

----------------------------------------------------------------------------
(* Infiltration on a field that may have lost its bunds: water-balance     *)
(* days of infiltration alone, starting with or without water ponded on    *)
(* the surface.                                                            *)

\* water left on the surface by the days before (1/SC mm)
PondedDepths == { 0, 30 * SC }

InitInfl ==
    /\ prof \in Profiles
    /\ Soil = [WaterTable |-> 0]
    /\ Crop = NoParams
    /\ IrrMngt = NoParams
    /\ FieldMngt \in { [Bunds |-> FALSE, zBund |-> 0], [Bunds |-> TRUE, zBund |-> 50] }
    /\ \E th \in StartProfiles(prof), S0 \in PondedDepths :
          NewCond = [CondDefault(prof) EXCEPT !.th = th, !.SurfaceStorage = S0]
    /\ ret = RetNone
    /\ nCalls = 0

NextInfl == Infiltration

SpecInfl == InitInfl /\ [][NextInfl]_vars

\* C15: infiltration with non-negative incoming water, non-negative prior
\* surface storage and non-negative prior fluxes returns a day infiltration,
\* a total runoff and a deep percolation that are all >= 0, with or without
\* bunds, including the day bunds are removed while water is still stored
\* on the surface.
C15_NoNegativeInfiltration ==
    (ret.op = "infiltration" /\ ret.In >= 0 /\ ret.S0 >= 0 /\ ret.DeepPerc0 >= 0)
       => (ret.Infl >= 0 /\ ret.RunoffTot >= 0 /\ ret.DeepPerc >= 0)

----------------------------------------------------------------------------
(* Biomass: biomass_accumulation called day after day                      *)

BioDays == 3

InitBio ==
    /\ prof = MkProfile(Loam, Pan)
    /\ Soil = NoParams
    /\ \E CropType \in {1, 3}, Determinant \in {0, 1} :
          Crop = [CropType |-> CropType, Determinant |-> Determinant, HIstartCD |-> 1,
                  YldFormCD |-> 6, WP |-> 17 * SC, WPy |-> 80, fCO2 |-> 1100]
    /\ IrrMngt = NoParams
    /\ FieldMngt = NoParams
    /\ \E HIref \in {0, 200} :
          NewCond = [DAP |-> 1, DelayedCDs |-> 0, HIref |-> HIref, PctLagPhase |-> 60,
                     B |-> 40 * SC, B_NS |-> 50 * SC]
    /\ ret = RetNone
    /\ nCalls = 0

BiomassAccumulation ==
    /\ NewCond.DAP <= BioDays
    /\ ret.op # "failed"
    /\ \E Et0 \in {0, 5 * SC}, Tr \in {0, 2 * SC, 4 * SC}, GrowingSeason \in BOOLEAN :
          \E r \in { biomass_accumulation(Crop, NewCond, Tr, 4 * SC, Et0, GrowingSeason) } :
             IF r.ok
             THEN /\ NewCond' = [r.Cond EXCEPT !.DAP = @ + 1]
                  /\ ret' = [op |-> "biomass_accumulation", GrowingSeason |-> GrowingSeason,
                             Et0 |-> Et0, Tr |-> Tr, B |-> NewCond.B, B_NS |-> NewCond.B_NS]
             ELSE /\ NewCond' = NewCond
                  /\ ret' = [op |-> "failed", GrowingSeason |-> GrowingSeason,
                             Et0 |-> Et0, Tr |-> Tr, B |-> NewCond.B, B_NS |-> NewCond.B_NS]
    /\ UNCHANGED <<prof, Soil, Crop, IrrMngt, FieldMngt, nCalls>>

NextBio == BiomassAccumulation

SpecBio == InitBio /\ [][NextBio]_vars

\* C16: on a growing-season day on which the actual or the no-stress
\* increment WPadj * (Tr / Et0) is not a finite number (Et0 = 0),
\* biomass_accumulation completes and leaves the biomass totals B and B_NS
\* as they were.
C16_NonFiniteIncrementIsZero ==
    (ret.op \in {"biomass_accumulation", "failed"} /\ ret.GrowingSeason /\ ret.Et0 = 0)
       => (ret.op = "biomass_accumulation" /\ NewCond.B = ret.B /\ NewCond.B_NS = ret.B_NS)

----------------------------------------------------------------------------
(* Drainage and the adjusted field capacity (water-balance sequences)      *)

\* the call just made was drainage; compartment i started at or below its
\* adjusted field capacity
DrainageCalled == ret.op = "drainage"
AtOrBelowFc(i) == ret.th0[i] <= NewCond.th_fc_Adj[i]

\* thnew[i] >= min(th_init[i], th_fc_Adj[i]) for every compartment
DrainageFloor ==
    \A i \in Comps : NewCond.th[i] >= Min(ret.th0[i], NewCond.th_fc_Adj[i])

\* a compartment at or below its threshold under compartments that are at or
\* below theirs keeps its water content and passes nothing on
DrainageNoChange ==
    \A i \in Comps :
       (\A j \in 1 .. i : AtOrBelowFc(j))
          => (NewCond.th[i] = ret.th0[i] /\ ret.FluxOut[i] = 0)

\* a profile everywhere at or below the threshold is a fixed point
DrainageFixedPoint ==
    (\A i \in Comps : AtOrBelowFc(i))
       => (NewCond.th = ret.th0 /\ ret.DeepPerc = 0
           /\ \A i \in Comps : ret.FluxOut[i] = 0)

\* no compartment holds more water after the call than before
DrainageNonIncreasing == \A i \in Comps : NewCond.th[i] <= ret.th0[i]

----------------------------------------------------------------------------
(* Capillary rise (water-balance sequences)                                *)

CapRiseCalled == ret.op = "capillary_rise"

\* the compartment at which the upward loop stops on a non-zero outgoing
\* flux, 0 when no compartment has one
CapRiseStop ==
    LET flowing == { i \in Comps : ret.FluxOut[i] # 0 }
    IN  IF flowing = {} THEN 0 ELSE CHOOSE i \in flowing : \A j \in flowing : j <= i

\* the depth added to the profile, 1/SC mm
CapRiseAdded == Sum([i \in Comps |-> (NewCond.th[i] - ret.th0[i]) * prof.dz[i]])

\* the maximum capillary rise of the bottom compartment
CapRiseMax == CrLimit(prof, nComp, NewCond.zGW, prof.zMid[nComp])

\* C19: with no water table capillary_rise returns CrTot = 0 and changes no
\* water content; with a water table it works from the bottom compartment
\* upward and stops at the first compartment whose outgoing flux of the day
\* is non-zero, leaving that compartment and every compartment above it
\* unchanged; it never raises a compartment above its adjusted field
\* capacity, never lowers a compartment, and CrTot equals the total depth
\* added and does not exceed the maximum capillary rise of the bottom
\* compartment, which is at most 99 mm.
C19_CapillaryRise ==
    CapRiseCalled
       => /\ Soil.WaterTable = 0 => (ret.CrTot = 0 /\ NewCond.th = ret.th0)
          /\ \A i \in 1 .. CapRiseStop : NewCond.th[i] = ret.th0[i]
          /\ \A i \in Comps : /\ NewCond.th[i] >= ret.th0[i]
                              /\ NewCond.th[i] > ret.th0[i]
                                    => NewCond.th[i] <= NewCond.th_fc_Adj[i]
          /\ ret.CrTot = CapRiseAdded
          /\ ret.CrTot <= CapRiseMax /\ CapRiseMax <= 99 * SC

\* water rose into the bottom of a profile whose upper part was still
\* draining
C19_Witness ==
    /\ CapRiseCalled /\ Soil.WaterTable = 1
    /\ ret.CrTot > 0
    /\ CapRiseStop >= 1 /\ CapRiseStop < nComp

----------------------------------------------------------------------------
(* soil_evaporation and evap_layer_water_content.  th in 1/(100*SC), depths *)
(* of soil in mm, depths of water in 1/SC mm, canopy covers in 1/(10*SC),   *)
(* coefficients in 1/SC.                                                    *)

\* water held by compartment i at water content th (1/(100*SC)), 1/SC mm
EvapW(p, i, th) == (th * p.dz[i]) \div 100

\* share of compartment i that lies above depth Z, 1/SC; negative for a
\* compartment that starts below Z
EvapFactor(p, i, Z) ==
    IF p.dzsum[i] > Z THEN SC - ((p.dzsum[i] - Z) * SC) \div p.dz[i] ELSE SC

\* evap_layer_water_content(InitCond_th, InitCond_EvapZ, prof)
evap_layer_water_content(th, EvapZ, p) ==
    LET n        == Len(p.dz)
        comp_sto == Cardinality({ i \in 1 .. n : p.dzsum[i] < EvapZ }) + 1
        Part(i, w) == (EvapFactor(p, i, EvapZ) * w) \div SC
        Tot(f)   == Sum([i \in 1 .. comp_sto |-> Part(i, EvapW(p, i, f[i]))])
    IN  IF comp_sto > n THEN [ok |-> FALSE, why |-> "IndexError"]
        ELSE [ok |-> TRUE,
              Sat |-> Tot([i \in 1 .. n |-> 100 * p.th_s[i]]),
              Fc  |-> Tot([i \in 1 .. n |-> 100 * p.th_fc[i]]),
              Wp  |-> Tot([i \in 1 .. n |-> 100 * p.th_wp[i]]),
              Dry |-> Tot([i \in 1 .. n |-> 100 * p.th_dry[i]]),
              Act |-> Max(0, Tot(th))]

\* relative water content at which stage 2 starts, rounded to 0.01 (1/SC)
EvapWstage2(W, REW) ==
    IF ~W.ok THEN W
    ELSE IF W.Sat - (W.Fc - REW) = 0 THEN [ok |-> FALSE, why |-> "ZeroDivisionError"]
    ELSE [ok |-> TRUE,
          Wstage2 |-> Max(0, RoundTo(((W.Act - (W.Fc - REW)) * SC)
                                        \div (W.Sat - (W.Fc - REW)), 10))]

\* potential soil evaporation of the day, EsPot (lines 2718-2795)
EvapPot(So, Cr, IM, FM, I, Et0, Rain, Irr, GrowingSeason) ==
    LET tAdj == IF Cr.CalendarType = 1 THEN I.DAP - I.DelayedCDs
                ELSE I.GDDcum - I.DelayedGDDs
        Of(k) == Scale(Et0, (So.Kex * k) \div SC)
        EsPotMax == Of(SC - (I.CCxW * So.fwcc) \div SC)
        EsPot0   == Of(SC - I.CCadj \div 10)
        mult     == IF I.CC > I.CCxAct \div 2
                    THEN IF I.CC > I.CCxAct THEN 0
                         ELSE ((I.CCxAct - I.CC) * SC) \div (I.CCxAct \div 2)
                    ELSE SC
        x        == I.CCxAct \div 10
        CCxActAdj == (1720 * x) \div SC - (x * x) \div SC
                        + (300 * ((((x * x) \div SC) * x) \div SC)) \div SC
        EsPotMin == Max(0, Of(SC - CCxActAdj))
        Less     == Scale(EsPot0, SC - (((I.CCxAct * So.fwcc) \div SC) * mult) \div SC)
        Late     == IF Less < EsPotMin THEN EsPotMin
                    ELSE IF Less > EsPotMax THEN EsPotMax ELSE Less
        EsPot1   == IF tAdj > Cr.Senescence /\ I.CCxAct > 0 THEN Late ELSE EsPot0
        EsPot    == IF ~GrowingSeason THEN Of(SC)
                    ELSE IF I.PrematSenes THEN Min(EsPot1, EsPotMax) ELSE EsPot1
        EsPotMul == IF I.SurfaceStorage <= 0 /\ FM.Mulches
                    THEN Scale(EsPot, SC - (FM.fMulch * FM.MulchPct) \div 100)
                    ELSE EsPot
        EsPotIrr == IF Irr > 0 /\ IM.IrrMethod # 4 /\ ~(Rain > SC \/ I.SurfaceStorage > 0)
                    THEN Scale(EsPot, IM.WetSurf * 10)
                    ELSE EsPot
    IN  Min(EsPotIrr, EsPotMul)

\* the extraction loop of stage 1 (clamped) and of a stage 2 step: it takes
\* `need` from the compartments 1, 2, ... while comp < comp_sto holds before
\* the step to the next compartment.  st: th, EsAct, ToExtract, below, oob,
\* visits (the compartments the loop went through, in order)
RECURSIVE EvapPull(_, _, _, _, _, _)
EvapPull(p, Z, clamped, comp, need, st) ==
    LET n        == Len(p.dz)
        comp_sto == Cardinality({ i \in 1 .. n : p.dzsum[i] < Z }) + 1
        i        == comp + 1
    IN  IF ~(need > 0 /\ comp <= comp_sto) THEN [st EXCEPT !.need = need]
        ELSE IF i > n THEN [st EXCEPT !.need = need, !.oob = TRUE,
                                      !.visits = Append(@, i)]
        ELSE LET Wdry == EvapW(p, i, 100 * p.th_dry[i])
                 W    == EvapW(p, i, st.th[i])
                 AvW0 == ((W - Wdry) * EvapFactor(p, i, Z)) \div SC
                 AvW  == IF clamped /\ AvW0 < 0 THEN 0 ELSE AvW0
                 take == IF AvW >= need THEN need ELSE AvW
             IN  EvapPull(p, Z, clamped, i, need - take,
                          [st EXCEPT !.th[i] = ((W - take) * 100) \div p.dz[i],
                                     !.EsAct = @ + take,
                                     !.ToExtract = @ - take,
                                     !.visits = Append(@, i),
                                     !.below = @ \/ p.dzsum[i] - p.dz[i] >= Z])

EvapDeepenFar(p, So, th, Wstage2, Z) ==
    [ok |-> TRUE, EvapZ |-> So.EvapZmax + 2, Wrel |-> SC]

\* stage 2: the evaporation layer deepens by 0.001 m while the relative
\* water content of the layer is below Wcheck (lines 2909-2928)
RECURSIVE EvapDeepen(_, _, _, _, _)
EvapDeepen(p, So, th, Wstage2, Z) ==
    LET W == evap_layer_water_content(th, Z, p) IN
    IF ~W.ok THEN W
    ELSE LET Wupper == (Wstage2 * (W.Sat - (W.Fc - So.REW))) \div SC + (W.Fc - So.REW)
             Wlower == W.Dry
         IN  IF Wupper = Wlower THEN [ok |-> FALSE, why |-> "ZeroDivisionError"]
             ELSE LET Wrel   == ((W.Act - Wlower) * SC) \div (Wupper - Wlower)
                      Wcheck == (So.fWrelExp * (So.EvapZmax - Z))
                                   \div (So.EvapZmax - So.EvapZmin)
                  IN  IF So.EvapZmax > So.EvapZmin /\ Wrel < Wcheck /\ Z < So.EvapZmax
                      THEN EvapDeepen(p, So, th, Wstage2, Z + 1)
                      ELSE [ok |-> TRUE, EvapZ |-> Z, Wrel |-> Wrel]

\* the sub-daily steps of stage 2 (lines 2897-2978)
RECURSIVE EvapStage2(_, _, _, _, _, _)
EvapStage2(p, So, Edt, Wstage2, jj, st) ==
    IF jj > So.EvapTimeSteps \/ ~st.ok THEN st
    ELSE LET Step(d) ==
                 IF ~d.ok THEN [st EXCEPT !.ok = FALSE]
                 ELSE LET Kr == IF d.Wrel >= SC THEN SC
                                ELSE ((Exp((So.fevap * d.Wrel) \div SC) - SC) * SC)
                                        \div (Exp(So.fevap) - SC)
                          After(pl) ==
                              EvapStage2(p, So, Edt, Wstage2, jj + 1,
                                         [pl EXCEPT !.EvapZ = d.EvapZ,
                                                    !.below2 = @ \/ pl.below,
                                                    !.zs = Append(@, d.EvapZ),
                                                    !.loops = Append(@, pl.visits)])
                      IN  Only({ After(pl) : pl \in { EvapPull(p, d.EvapZ, FALSE, 0,
                                     (Kr * Edt) \div SC,
                                     [st EXCEPT !.below = FALSE, !.visits = <<>>]) } })
         IN  Only({ Step(d) : d \in { EvapDeepen(p, So, st.th, Wstage2, st.EvapZ) } })

EvapWetsAlways(IM, Rain, Irr) == TRUE

\* the days on which stage 1 is prepared (line 2701)
EvapWets(IM, Rain, Irr) == Rain > 0 \/ (Irr > 0 /\ IM.IrrMethod # 4)

\* soil_evaporation(...): [ok, Cond, EsAct, EsPot, below1, below2, oob] and
\* what the call went through: Pre and Start (Wsurf, Wstage2, EvapZ, Stage2
\* before and after lines 2701-2715), visits1 (compartments of the stage 1
\* loop), loops (those of each stage 2 step), zs (EvapZ of each stage 2 step)
soil_evaporation(Clock, So, p, Cr, IM, FM, I, Et0, Infl, Rain, Irr, GrowingSeason) ==
    LET \* lines 2680-2697
        Fresh == Clock.TimeStepCounter = 0 \/ (I.DAP = 1 /\ ~Clock.SimOffSeason)
        Begun(w) == IF ~Fresh THEN [ok |-> TRUE, Cond |-> I]
                    ELSE IF ~w.ok THEN w
                    ELSE [ok |-> TRUE,
                          Cond |-> [I EXCEPT !.Wsurf = 0, !.EvapZ = So.EvapZmin,
                                             !.Stage2 = TRUE, !.Wstage2 = w.Wstage2]]
        \* lines 2701-2715
        Wetted(C) == IF EvapWets(IM, Rain, Irr) /\ Infl > 0
                     THEN [C EXCEPT !.Wsurf = Min(Infl, So.REW), !.Wstage2 = 0,
                                    !.EvapZ = So.EvapZmin, !.Stage2 = FALSE]
                     ELSE C
        \* lines 2801-2816
        Ponded(C, EsPot) ==
            IF C.SurfaceStorage > 0
            THEN IF C.SurfaceStorage > EsPot
                 THEN [Cond |-> [C EXCEPT !.SurfaceStorage = @ - EsPot], EsAct |-> EsPot]
                 ELSE [Cond |-> [C EXCEPT !.SurfaceStorage = 0, !.Wsurf = So.REW,
                                          !.Wstage2 = 0, !.EvapZ = So.EvapZmin,
                                          !.Stage2 = FALSE],
                       EsAct |-> C.SurfaceStorage]
            ELSE [Cond |-> C, EsAct |-> 0]
        \* lines 2820-2887
        Stage1(C, EsAct0, EsPot) ==
            LET want == Min(EsPot - EsAct0, C.Wsurf)
                st0  == [ok |-> TRUE, th |-> C.th, EsAct |-> EsAct0,
                         ToExtract |-> EsPot - EsAct0, need |-> 0, below |-> FALSE,
                         below2 |-> FALSE, oob |-> FALSE, EvapZ |-> C.EvapZ,
                         visits |-> <<>>, loops |-> <<>>, zs |-> <<>>]
                Done(st) ==
                    LET left  == C.Wsurf - st.EsAct
                        Wsurf == IF left < 0 \/ st.need > 0 THEN 0 ELSE left
                        Set(w) == IF ~w.ok THEN w
                                  ELSE [ok |-> TRUE, st |-> st,
                                        Cond |-> [C EXCEPT !.th = st.th, !.Wsurf = Wsurf,
                                                           !.Wstage2 = w.Wstage2]]
                    IN  IF Wsurf <= 0
                        THEN Only({ Set(w) : w \in { EvapWstage2(
                                       evap_layer_water_content(st.th, C.EvapZ, p),
                                       So.REW) } })
                        ELSE [ok |-> TRUE, st |-> st,
                              Cond |-> [C EXCEPT !.th = st.th, !.Wsurf = Wsurf]]
            IN  IF want > 0
                THEN Only({ Done(st) : st \in { EvapPull(p, So.EvapZmin, TRUE, 0, want, st0) } })
                ELSE [ok |-> TRUE, st |-> st0, Cond |-> C]
        \* lines 2891-2983
        Stage2(s1, EsPot) ==
            IF ~s1.ok THEN s1
            ELSE IF s1.st.ToExtract > 0
            THEN LET End(st) ==
                         IF ~st.ok THEN [ok |-> FALSE, why |-> "ZeroDivisionError"]
                         ELSE [ok |-> TRUE, EsAct |-> st.EsAct, EsPot |-> EsPot,
                               below1 |-> s1.st.below, below2 |-> st.below2,
                               oob |-> st.oob, visits1 |-> s1.st.visits,
                               loops |-> st.loops, zs |-> <<s1.Cond.EvapZ>> \o st.zs,
                               Cond |-> [s1.Cond EXCEPT !.th = st.th, !.Stage2 = TRUE,
                                                        !.EvapZ = st.EvapZ,
                                                        !.Epot = EsPot]]
                 IN  Only({ End(st) : st \in { EvapStage2(p, So,
                                 s1.st.ToExtract \div So.EvapTimeSteps, s1.Cond.Wstage2, 1,
                                 s1.st) } })
            ELSE [ok |-> TRUE, EsAct |-> s1.st.EsAct, EsPot |-> EsPot,
                  below1 |-> s1.st.below, below2 |-> FALSE, oob |-> s1.st.oob,
                  visits1 |-> s1.st.visits, loops |-> <<>>, zs |-> <<>>,
                  Cond |-> [s1.Cond EXCEPT !.Epot = EsPot]]
        Day(b) ==
            IF ~b.ok THEN b
            ELSE LET Four(C) == [Wsurf |-> C.Wsurf, Wstage2 |-> C.Wstage2,
                                 EvapZ |-> C.EvapZ, Stage2 |-> C.Stage2]
                     Gone(C, r) == IF r.ok THEN [Pre |-> Four(b.Cond), Start |-> Four(C)] @@ r
                                   ELSE r
                     Run(C, EsPot) ==
                         Only({ Gone(C, Stage2(s1, EsPot)) :
                                s1 \in { Only({ Stage1(po.Cond, po.EsAct, EsPot) :
                                                po \in { Ponded(C, EsPot) } }) } })
                 IN  Only({ Run(C, EvapPot(So, Cr, IM, FM, C, Et0, Rain, Irr, GrowingSeason)) :
                            C \in { Wetted(b.Cond) } })
    IN  Only({ Day(b) : b \in { Begun(EvapWstage2(
                   evap_layer_water_content(I.th, So.EvapZmin, p), So.REW)) } })

\* days of evaporation followed
EvapDays == 2

\* water contents (1/(100 * SC)) the water balance may leave before the
\* evaporation of the day: a profile at field capacity, a saturated one, a
\* nearly air-dry one, a top compartment at field capacity or dried by
\* the roots to wilting point over an air-dry subsoil, and a nearly air-dry
\* top compartment over a subsoil at field capacity
EvapWater(p) ==
    { [i \in Comps |-> 100 * p.th_fc[i]],
      [i \in Comps |-> 100 * p.th_s[i]],
      [i \in Comps |-> 100 * p.th_dry[i] + 50],
      [i \in Comps |-> IF i = 1 THEN 100 * p.th_fc[i] ELSE 100 * p.th_dry[i]],
      [i \in Comps |-> IF i = 1 THEN 100 * p.th_wp[i] ELSE 100 * p.th_dry[i]],
      [i \in Comps |-> IF i = 1 THEN 100 * p.th_dry[i] + 50 ELSE 100 * p.th_fc[i]] }

\* between two calls water is added from above or taken by drainage (down
\* to field capacity) and by the roots (down to wilting point)
EvapLeft(p, before, th) ==
    \A i \in Comps : th[i] >= Min(before[i], 100 * p.th_wp[i])

\* the water infiltrated today is held by the top compartment, and water
\* stands on the field only over a top compartment at field capacity or above
EvapHeld(p, th, Infl, SurfaceStorage) ==
    /\ Infl > 0 => EvapW(p, 1, th[1]) - EvapW(p, 1, 100 * p.th_dry[1]) >= Infl
    /\ SurfaceStorage > 0 => th[1] >= 100 * p.th_fc[1]

InitEvap ==
    /\ prof \in { MkProfile(Sand, Loam), MkProfile(Loam, Pan) }
    /\ Soil = [EvapZmin |-> 150, EvapZmax |-> 200, REW |-> 9 * SC, Kex |-> 1100,
               fwcc |-> 50, fWrelExp |-> 400, fevap |-> 4 * SC, nComp |-> nComp,
               EvapTimeSteps |-> 2]
    /\ Crop = [CalendarType |-> 1, Senescence |-> 1]
    /\ \E field \in { <<1, FALSE>>, <<4, TRUE>> } :
          /\ IrrMngt = [IrrMethod |-> field[1], WetSurf |-> 30]
          /\ FieldMngt = [Mulches |-> field[2], fMulch |-> 500, MulchPct |-> 50]
    /\ \E canopy \in { <<0, 0, 0, FALSE>>, <<8500, 9000, 8500, FALSE>>,
                       <<4000, 4500, 8500, TRUE>> } :
          NewCond = [th |-> [i \in Comps |-> 100 * prof.th_fc[i]],
                     DAP |-> 0, DelayedCDs |-> 0, GDDcum |-> 0, DelayedGDDs |-> 0,
                     CC |-> canopy[1], CCadj |-> canopy[2], CCxAct |-> canopy[3],
                     CCxW |-> canopy[3], PrematSenes |-> canopy[4],
                     SurfaceStorage |-> 0, Wsurf |-> 0, Wstage2 |-> 0,
                     EvapZ |-> 150, Stage2 |-> FALSE, Epot |-> 0]
    /\ ret = RetNone
    /\ nCalls = 0

\* one day: the water balance leaves th and SurfaceStorage, then
\* soil_evaporation runs
SoilEvaporation ==
    /\ nCalls < EvapDays
    /\ ret.op # "failed"
    /\ \E th \in EvapWater(prof), Et0 \in { 2 * SC, 8 * SC },
          wet \in { <<0, 0, 0>>, <<12 * SC, 0, 9 * SC>>, <<0, 10 * SC, 4 * SC>> },
          SurfaceStorage \in { 0, 3 * SC }, GrowingSeason \in BOOLEAN :
          /\ nCalls > 0 => EvapLeft(prof, NewCond.th, th)
          /\ EvapHeld(prof, th, wet[3], SurfaceStorage)
          /\ \E r \in { soil_evaporation(
                            [TimeStepCounter |-> nCalls, SimOffSeason |-> TRUE],
                            Soil, prof, Crop, IrrMngt, FieldMngt,
                            [NewCond EXCEPT !.th = th, !.DAP = @ + 1,
                                            !.SurfaceStorage = SurfaceStorage],
                            Et0, wet[3], wet[1], wet[2], GrowingSeason) } :
                IF r.ok
                THEN /\ NewCond' = r.Cond
                     /\ ret' = [op |-> "soil_evaporation", th |-> th,
                                SurfaceStorage |-> SurfaceStorage,
                                Wsurf |-> NewCond.Wsurf, Rain |-> wet[1],
                                Irr |-> wet[2], Infl |-> wet[3],
                                EsAct |-> r.EsAct, EsPot |-> r.EsPot,
                                below1 |-> r.below1, below2 |-> r.below2,
                                oob |-> r.oob, Pre |-> r.Pre, Start |-> r.Start,
                                visits1 |-> r.visits1, loops |-> r.loops, zs |-> r.zs]
                ELSE /\ NewCond' = NewCond
                     /\ ret' = [op |-> "failed", th |-> th, why |-> r.why]
    /\ nCalls' = nCalls + 1
    /\ UNCHANGED <<prof, Soil, Crop, IrrMngt, FieldMngt>>

NextEvap == SoilEvaporation

SpecEvap == InitEvap /\ [][NextEvap]_vars

EvapCalled == ret.op = "soil_evaporation"

\* water of the profile at th, 1/SC mm
EvapStored(th) == Sum([i \in Comps |-> EvapW(prof, i, th[i])])

EvapNoGain == EvapCalled => \A i \in Comps : NewCond.th[i] <= ret.th[i]

EvapInLayer == EvapCalled => ~ret.below1 /\ ~ret.below2 /\ ~ret.oob

EvapBalanced ==
    EvapCalled =>
        ret.EsAct = (ret.SurfaceStorage - NewCond.SurfaceStorage)
                       + (EvapStored(ret.th) - EvapStored(NewCond.th))

EvapBounded == EvapCalled => 0 <= ret.EsAct /\ ret.EsAct <= ret.EsPot

\* C20: soil_evaporation raises no compartment's water content, touches no
\* compartment entirely below the evaporation layer and none beyond the
\* profile, and returns as EsAct the depth taken from surface storage and
\* the compartments, with 0 <= EsAct <= EsPot.
C20_EvaporationConfined ==
    EvapNoGain /\ EvapInLayer /\ EvapBalanced /\ EvapBounded

----------------------------------------------------------------------------
\* the four fields of the evaporation state as lines 2707-2715 set them
EvapReset(Infl) ==
    [Wsurf |-> Min(Infl, Soil.REW), Wstage2 |-> 0, EvapZ |-> Soil.EvapZmin,
     Stage2 |-> FALSE]

EvapResetOnInfl == EvapCalled /\ ret.Infl > 0 => ret.Start = EvapReset(ret.Infl)

EvapKeptWhenDry == EvapCalled /\ ret.Infl <= 0 => ret.Start = ret.Pre

EvapWetDay == ret.Rain > 0 \/ (ret.Irr > 0 /\ IrrMngt.IrrMethod # 4)

----------------------------------------------------------------------------
\* the compartments of one extraction loop, each later than the one before
EvapOnce(visits) == \A k \in 1 .. Len(visits) - 1 : visits[k] < visits[k + 1]

\* stage 2 ran on the call
EvapStage2Ran == EvapCalled /\ Len(ret.zs) > 0

\* C22: soil_evaporation completes; when stage 2 runs it makes exactly
\* EvapTimeSteps steps, EvapZ never decreases from step to step and never
\* exceeds EvapZmax by more than one increment of 1 mm, and each extraction
\* loop visits a compartment at most once.
C22_EvaporationTerminates ==
    /\ ret.op # "failed"
    /\ EvapCalled => EvapOnce(ret.visits1) /\ Len(ret.loops) \in {0, Soil.EvapTimeSteps}
    /\ EvapStage2Ran =>
          /\ Len(ret.loops) = Soil.EvapTimeSteps
          /\ Len(ret.zs) = Soil.EvapTimeSteps + 1
          /\ \A k \in 1 .. Len(ret.loops) : EvapOnce(ret.loops[k])
          /\ \A k \in 1 .. Len(ret.zs) - 1 : ret.zs[k] <= ret.zs[k + 1]
          /\ \A k \in 1 .. Len(ret.zs) : ret.zs[k] <= Soil.EvapZmax + 1
          /\ NewCond.EvapZ = ret.zs[Len(ret.zs)]

\* a day whose stage 2 deepened the layer before its first step and again
\* before a later one, and took water in every step
C22_Witness ==
    /\ EvapStage2Ran
    /\ ret.zs[1] < ret.zs[2] /\ ret.zs[2] < ret.zs[Len(ret.zs)]
    /\ \A k \in 1 .. Len(ret.loops) : Len(ret.loops[k]) > 0

----------------------------------------------------------------------------
(* aeration_stress over a sequence of days.  Root-zone water contents in   *)
(* 1/SC, the coefficient in 1/SC.                                          *)

InitAer ==
    /\ prof = MkProfile(Loam, Loam)
    /\ \E rz \in { <<460, 410>>, <<360, 340>> } : Soil = [S |-> rz[1], Aer |-> rz[2]]
    /\ \E LagAer \in {1, 3, 4, 5} : Crop = [LagAer |-> LagAer]
    /\ IrrMngt = NoParams
    /\ FieldMngt = NoParams
    /\ NewCond = [AerDays |-> 0]
    /\ ret = RetNone
    /\ nCalls = 0

\* one day: the root zone holds Act, between wilting point and saturation
AerationStress ==
    /\ \E wet \in {0, 2, 5, 8, 10}, dry \in BOOLEAN :
          LET Act == IF dry THEN Soil.Aer - 10 * wet
                     ELSE Soil.Aer + (wet * (Soil.S - Soil.Aer)) \div 10
          IN  \E r \in { aeration_stress(NewCond.AerDays, Crop.LagAer,
                                         [S |-> Soil.S, Aer |-> Soil.Aer, Act |-> Act]) } :
                 /\ r.ok
                 /\ NewCond' = [NewCond EXCEPT !.AerDays = r.AerDays]
                 /\ ret' = [op |-> "aeration_stress", Act |-> Act,
                            AerDays |-> NewCond.AerDays, Ksa_Aer |-> r.Ksa]
    /\ UNCHANGED <<prof, Soil, Crop, IrrMngt, FieldMngt, nCalls>>

NextAer == AerationStress

SpecAer == InitAer /\ [][NextAer]_vars

AerCalled == ret.op = "aeration_stress"

AerCounter ==
    AerCalled =>
        /\ NewCond.AerDays \in 0 .. Crop.LagAer
        /\ NewCond.AerDays = IF ret.Act > Soil.Aer
                             THEN Min(ret.AerDays + 1, Crop.LagAer) ELSE 0

AerNoStress == AerCalled /\ ret.Act <= Soil.Aer => ret.Ksa_Aer = SC

AerCoefficient ==
    AerCalled /\ ret.Act > Soil.Aer => 0 <= ret.Ksa_Aer /\ ret.Ksa_Aer <= SC

\* C23: over any sequence of days and for every LagAer >= 1 the day counter
\* stays within [0, LagAer], increases by 1 per waterlogged day up to LagAer
\* and is reset to 0, with coefficient 1, when the root zone is at or below
\* the aeration threshold; on every waterlogged day the coefficient lies in
\* [0, 1].
C23_AerationStress == AerCounter /\ AerNoStress /\ AerCoefficient

----------------------------------------------------------------------------
\* bunds that count: enabled and higher than 0.001 m
InflBunded == FieldMngt.Bunds /\ FieldMngt.zBund > 1

\* infiltration returned with ToStore and RunoffIni assigned
InflCompleted ==
    /\ ret.op # "failed"
    /\ ret.op = "infiltration" => ret.defined

\* what is left on the surface: at most the bund height behind bunds,
\* nothing without them
InflSurfaceKept ==
    ret.op = "infiltration" =>
        IF InflBunded
        THEN 0 <= NewCond.SurfaceStorage /\ NewCond.SurfaceStorage <= FieldMngt.zBund * SC
        ELSE NewCond.SurfaceStorage = 0

\* C24: for no bunds, bunds higher than 0.001 m and bunds enabled with a
\* height of 0.001 m or less, infiltration has the amount to store and the
\* initial runoff defined and completes; water that cannot enter the soil is
\* kept as surface storage up to the bund height behind bunds, and runs off
\* with SurfaceStorage = 0 when bunds are absent or too low to count.
C24_EveryFieldConfiguration == InflCompleted /\ InflSurfaceKept

----------------------------------------------------------------------------
\* the call had roots deeper than the top soil, within the profile
RzwBelowTop ==
    /\ ret.op = "root_zone_water"
    /\ Max(ret.Zroot, Crop.Zmin) > Soil.zTop
    /\ Max(ret.Zroot, Crop.Zmin) <= prof.dzsum[nComp]

\* water held above the depth zTop by a profile at v (1/SC): each compartment
\* weighted by its part above zTop
RzwAbove(v, zTop) ==
    Sum([i \in Comps |->
            100 * v[i] * Max(0, Min(prof.dzsum[i], zTop) - (prof.dzsum[i] - prof.dz[i]))])

\* top-soil total available water as the totals over the depth zTop give it
RzwTopTAW == Max(RzwAbove(prof.th_fc, Soil.zTop) - RzwAbove(prof.th_wp, Soil.zTop), 0)

RzwTopCompletes == RzwBelowTop => ret.out.ok

RzwTopWeighted == RzwBelowTop /\ ret.out.ok => ret.out.TAW.Zt = RzwTopTAW

\* C25: with roots deeper than zTop the top-soil totals are the sums over
\* the compartments weighted by the part of each lying above zTop, so they
\* cover exactly the depth zTop, on or off a compartment boundary, and the
\* call does not fail when zTop is shallower than the first compartment.
C25_TopSoilTotals == RzwTopCompletes /\ RzwTopWeighted

=============================================================================
